---- MODULE Spec2Model ----
(***************************************************************************)
(* Model of the extraction front-end of plaso (plaso/frontend/frontend.py):*)
(* the multi-process and single-process extraction runs of                 *)
(* ExtractionFrontend and its abort handler CleanUpAfterAbort.             *)
(*                                                                         *)
(* The orchestrator (main process) is a sequential program whose position  *)
(* is pc; the collector, the workers and the storage writer are separate   *)
(* OS processes which step on their own.  An interactive interrupt         *)
(* (KeyboardInterrupt) stops the main flow where it stands and starts      *)
(* CleanUpAfterAbort, whose position is apc.                               *)
(***************************************************************************)
EXTENDS Integers, Sequences, FiniteSets

(***************************************************************************)
(* Bounds of the model.                                                    *)
(***************************************************************************)
\* Largest worker pool the model explores.
MaxWorkers == 2
\* Largest number of work items the collector finds.
MaxItems == 1
\* Largest CPU count and largest worker option the pool size is computed for.
MaxCpuCount == 20
MaxWorkersOption == 16
\* Longest VSS store expression.
MaxExpressionLen == 6

(***************************************************************************)
(* Program constants.                                                      *)
(***************************************************************************)
MINIMUM_WORKERS == 2
MAXIMUM_WORKERS == 15
\* cpu_count() - 3: the collector, the storage process and the main process.
ReservedCpus == 3
start_collection_process == TRUE

Workers == 0 .. (MaxWorkers - 1)
WorkerOptions == 0 .. MaxWorkers
CpuCounts == 1 .. (MaxWorkers + ReservedCpus)
\* self._scan_context.source_type: a single file, a directory, or a storage
\* media image or device.
SourceTypes == {"file", "directory", "image"}

VARIABLES
  pc,                          \* position of the main flow (ProcessSource)
  apc,                         \* position of CleanUpAfterAbort, "none" before
  second_interrupt,            \* a KeyboardInterrupt was caught at line 1458
  single_process_mode,         \* self._single_process_mode
  debug_mode,                  \* self._debug_mode
  run_foreman,                 \* self._run_foreman
  source_type,                 \* self._scan_context.source_type
  engine,                      \* self._engine is not None
  pre_obj,                     \* "unset", "none" (None) or "object"
  collection_information,      \* each value pre_obj.collection_information
                               \* was set to, in order
  number_of_worker_processes,  \* self._number_of_worker_processes
  worker_foreman,              \* "unset", "none" (None) or "object"
  foreman_state,               \* Foreman: state of every worker
  end_of_processing,           \* Foreman: SignalEndOfProcessing deliveries
  engine_proxy,                \* "none", "created", "open" or "closed"
  proxy_thread,                \* "unset", "none" (None), "alive" or "joined"
  collector,                   \* "none" (None), "created" or "signalled"
  collection_process,          \* "none", "created", "alive" or "exited"
  storage_process,             \* "none", "alive" or "exited"
  storage_joined,              \* a join() of the storage process returned
  worker_processes,            \* keys of self._worker_processes
  process_state,               \* worker process: none/created/alive/exit0/exit1
  worker_nr,                   \* loop variable of the start-up loop
  drain_list,                  \* rest of sorted(self._worker_processes.items())
  kill_list,                   \* workers iteritems() has still to yield
  collection_queue,            \* everything put on the collection queue
  storage_eoi,                 \* calls of SignalEndOfInputStorageQueue
  args,                        \* arguments of a function examined on its own
  result                       \* its result, << >> before it is applied

vars == <<pc, apc, second_interrupt, single_process_mode, debug_mode,
          run_foreman, source_type, engine, pre_obj, collection_information,
          number_of_worker_processes, worker_foreman, foreman_state,
          end_of_processing, engine_proxy, proxy_thread, collector,
          collection_process, storage_process, storage_joined,
          worker_processes, process_state, worker_nr, drain_list, kill_list,
          collection_queue, storage_eoi, args, result>>

\* Groups used in UNCHANGED.
callVars == <<args, result>>
optionVars == <<single_process_mode, debug_mode, run_foreman, source_type>>
abortVars == <<apc, second_interrupt, kill_list>>
foremanVars == <<worker_foreman, foreman_state, end_of_processing>>
proxyVars == <<engine_proxy, proxy_thread>>
prepVars == <<engine, pre_obj, collection_information,
              number_of_worker_processes>>
childVars == <<collection_process, storage_process, storage_joined>>
workerVars == <<worker_processes, process_state, worker_nr, drain_list>>
queueVars == <<collection_queue, storage_eoi>>

(***************************************************************************)
(* Helpers.                                                                *)
(***************************************************************************)
Min(S) == CHOOSE x \in S : \A y \in S : x <= y

\* The names of a set in descending order.
DescendingSeq(S) ==
  [i \in 1 .. Cardinality(S) |->
     CHOOSE x \in S : Cardinality({y \in S : y > x}) = i - 1]

RECURSIVE SortedSeq(_)
\* sorted(...) of a set of worker names, as a sequence.
SortedSeq(S) == IF S = {} THEN << >>
                ELSE <<Min(S)>> \o SortedSeq(S \ {Min(S)})

Count(q, x) == Cardinality({i \in DOMAIN q : q[i] = x})

IsAlive(state) == state = "alive"
Exited(state) == state \in {"exit0", "exit1"}

\* Lines 1073-1091 without the clamping of lines 1085-1089.
PoolSizeUnclamped(n, c) == IF n < 1 THEN c - ReservedCpus ELSE n

\* The worker pool size (lines 1073-1091) for option value n and c CPUs.
PoolSize(n, c) ==
  IF n < 1
    THEN LET cpus == c - ReservedCpus
         IN  IF cpus <= MINIMUM_WORKERS THEN MINIMUM_WORKERS
             ELSE IF cpus >= MAXIMUM_WORKERS THEN MAXIMUM_WORKERS
             ELSE cpus
    ELSE n

\* A join() that does not wait for the process.
JoinReturnsAtOnce(state) == TRUE

\* Process.join() without a timeout returns only once the process has
\* exited (lines 1260, 1289, 1450).
JoinReturns(state) == ~IsAlive(state)

\* A removal that leaves the worker in the map.
RemoveWorkerForgotten(tracked, w) == tracked

\* del self._worker_processes[process_name] (lines 1264, 1284).
RemoveWorker(tracked, w) == tracked \ {w}

\* hasattr(self, 'storage_process'): the front-end only ever sets the
\* attribute _storage_process (line 818), so the test is false.
HasAttrStorageProcess == FALSE

(***************************************************************************)
(* The Foreman (plaso/lib/foreman.py).  A worker is unmonitored, monitored,*)
(* completed or terminated; it has a label exactly while it is monitored.  *)
(***************************************************************************)
MonitorWorker(fs, w) == [fs EXCEPT ![w] = "monitored"]

GetLabel(fs, w) == fs[w] = "monitored"

\* CheckStatus(label): reclassifies a monitored worker whose process exited.
CheckStatusLabel(fs, ps, w) ==
  IF fs[w] # "monitored" THEN fs
  ELSE IF ps[w] = "exit0" THEN [fs EXCEPT ![w] = "completed"]
  ELSE IF ps[w] = "exit1" THEN [fs EXCEPT ![w] = "terminated"]
  ELSE fs

\* CheckStatus(): the same for every monitored worker.
CheckStatusAll(fs, ps) ==
  [w \in Workers |-> CheckStatusLabel(fs, ps, w)[w]]

TerminateProcess(fs, w) == [fs EXCEPT ![w] = "terminated"]

StopMonitoringWorker(fs, w) == [fs EXCEPT ![w] = "unmonitored"]

(***************************************************************************)
(* Initial state: the front-end after __init__ and ParseOptions.           *)
(***************************************************************************)
\* The attributes as __init__ leaves them (lines 793-822): no engine, no
\* collector, no process, an empty worker map.
Constructed ==
  /\ apc = "none"
  /\ second_interrupt = FALSE
  /\ engine = FALSE
  /\ pre_obj = "unset"
  /\ collection_information = << >>
  /\ number_of_worker_processes = 0
  /\ worker_foreman = "unset"
  /\ foreman_state = [w \in Workers |-> "unmonitored"]
  /\ end_of_processing = 0
  /\ engine_proxy = "none"
  /\ proxy_thread = "unset"
  /\ collector = "none"
  /\ collection_process = "none"
  /\ storage_process = "none"
  /\ storage_joined = FALSE
  /\ worker_processes = {}
  /\ process_state = [w \in Workers |-> "none"]
  /\ worker_nr = 0
  /\ drain_list = << >>
  /\ kill_list = {}
  /\ collection_queue = << >>
  /\ storage_eoi = 0

Init ==
  /\ pc = "init"
  /\ single_process_mode \in BOOLEAN
  /\ debug_mode \in BOOLEAN
  /\ run_foreman \in BOOLEAN
  /\ source_type \in SourceTypes
  /\ Constructed
  /\ args = << >>
  /\ result = << >>

Running == apc = "none"

(***************************************************************************)
(* ExtractionFrontend.ProcessSource (lines 1626-1665): a single file is    *)
(* processed by one worker in multi-process mode, whatever the options     *)
(* say; then the mode of the run is chosen.                                *)
(***************************************************************************)
\* self._preprocess (lines 1639-1660): set for a directory and for a source
\* with a partition offset, which a storage media image or device has.
Preprocess(type) == type \in {"directory", "image"}

\* options.workers when line 1653 is left out.
OptionsWorkersKept(type) == WorkerOptions

\* options.workers as _ProcessSourceMultiProcessMode reads it: line 1653
\* has set it to 1 for a single file.
OptionsWorkers(type) == IF type = "file" THEN {1} ELSE WorkerOptions

ProcessSource ==
  /\ Running /\ pc = "init"
  /\ single_process_mode' = (single_process_mode /\ source_type # "file")
  /\ pc' = IF single_process_mode' THEN "sp_engine" ELSE "mp_start"
  /\ UNCHANGED <<debug_mode, run_foreman, source_type, callVars, abortVars,
                 foremanVars, proxyVars, prepVars, collector, childVars,
                 workerVars, queueVars>>

(***************************************************************************)
(* _ProcessSourceMultiProcessMode, start-up (lines 1062-1209).             *)
(***************************************************************************)
\* Lines 1073-1091: the size of the worker pool.
MpPoolSize ==
  /\ Running /\ pc = "mp_start"
  /\ \E n \in OptionsWorkers(source_type), c \in CpuCounts :
       number_of_worker_processes' = PoolSize(n, c)
  /\ pc' = "mp_engine"
  /\ UNCHANGED <<optionVars, callVars, abortVars, foremanVars, proxyVars,
                 engine, pre_obj, collection_information, collector,
                 childVars, workerVars, queueVars>>

\* Lines 1095-1103: the queues and the engine.
MpCreateEngine ==
  /\ Running /\ pc = "mp_engine"
  /\ engine' = TRUE
  /\ pc' = "mp_preprocess"
  /\ UNCHANGED <<optionVars, callVars, abortVars, foremanVars, proxyVars,
                 pre_obj, collection_information, number_of_worker_processes,
                 collector, childVars, workerVars, queueVars>>

\* PreprocessSource (lines 1530-1578): the engine preprocesses the source
\* when self._preprocess is set; the call returns None when that fails with
\* an IOError, a preprocessing object otherwise.
PreprocessSource(next_pc) ==
  /\ \E io_error \in (IF Preprocess(source_type) THEN BOOLEAN ELSE {FALSE}) :
       pre_obj' = IF io_error THEN "none" ELSE "object"
  /\ pc' = next_pc
  /\ UNCHANGED <<optionVars, callVars, abortVars, foremanVars, proxyVars,
                 engine, collection_information, number_of_worker_processes,
                 collector, childVars, workerVars, queueVars>>

\* A record with the workers whatever the mode.
CollectionInformationWithWorkers(single, workers) ==
  [runtime |-> IF single THEN "single process mode" ELSE "multi process mode",
   workers |-> workers]

\* Lines 970-974, the keys that depend on the mode of the run.
CollectionInformation(single, workers) ==
  IF single THEN [runtime |-> "single process mode"]
  ELSE [runtime |-> "multi process mode", workers |-> workers]

\* _PreprocessSetCollectionInformation (lines 918-977): line 977 sets an
\* attribute of pre_obj, an AttributeError when pre_obj is None.
PreprocessSetCollectionInformation(next_pc, error_pc) ==
  /\ IF pre_obj = "none"
       THEN /\ pc' = error_pc
            /\ UNCHANGED collection_information
       ELSE /\ pc' = next_pc
            /\ collection_information' =
                 Append(collection_information,
                        CollectionInformation(single_process_mode,
                                              number_of_worker_processes))
  /\ UNCHANGED <<optionVars, callVars, abortVars, foremanVars, proxyVars,
                 engine, pre_obj, number_of_worker_processes, collector,
                 childVars, workerVars, queueVars>>

\* Lines 1105-1117.
MpPreprocess ==
  /\ Running /\ pc = "mp_preprocess"
  /\ PreprocessSource("mp_collection_information")

\* Lines 1119-1144.  An uncaught exception ends the run: pc = "crashed".
MpSetCollectionInformation ==
  /\ Running /\ pc = "mp_collection_information"
  /\ PreprocessSetCollectionInformation("mp_foreman", "crashed")

\* Lines 1146-1172: the Foreman and the RPC proxy of the engine.  Open()
\* raises ProxyFailedToStart when no port can be bound.
MpStartForeman ==
  /\ Running /\ pc = "mp_foreman"
  /\ IF run_foreman
       THEN /\ worker_foreman' = "object"
            /\ \E open_ok \in BOOLEAN :
                 IF open_ok
                   THEN /\ engine_proxy' = "open"
                        /\ proxy_thread' = "alive"
                   ELSE /\ engine_proxy' = "created"
                        /\ proxy_thread' = "none"
       ELSE /\ worker_foreman' = "none"
            /\ UNCHANGED proxyVars
  /\ pc' = "mp_collector"
  /\ UNCHANGED <<optionVars, callVars, abortVars, foreman_state,
                 end_of_processing, prepVars, collector, childVars,
                 workerVars, queueVars>>

\* Lines 1174-1181.
MpCreateCollector ==
  /\ Running /\ pc = "mp_collector"
  /\ collector' = "created"
  /\ pc' = "mp_storage"
  /\ UNCHANGED <<optionVars, callVars, abortVars, foremanVars, proxyVars,
                 prepVars, childVars, workerVars, queueVars>>

\* Lines 1183-1186.
MpStartStorage ==
  /\ Running /\ pc = "mp_storage"
  /\ storage_process' = "alive"
  /\ pc' = IF start_collection_process THEN "mp_collection" ELSE "mp_worker"
  /\ UNCHANGED <<optionVars, callVars, abortVars, foremanVars, proxyVars,
                 prepVars, collector, collection_process, storage_joined,
                 workerVars, queueVars>>

\* Lines 1190-1191: the collection process object, not yet started.
MpCreateCollection ==
  /\ Running /\ pc = "mp_collection"
  /\ collection_process' = "created"
  /\ pc' = "mp_collection_start"
  /\ UNCHANGED <<optionVars, callVars, abortVars, foremanVars, proxyVars,
                 prepVars, collector, storage_process, storage_joined,
                 workerVars, queueVars>>

\* Line 1192.
MpStartCollection ==
  /\ Running /\ pc = "mp_collection_start"
  /\ collection_process' = "alive"
  /\ pc' = "mp_worker"
  /\ UNCHANGED <<optionVars, callVars, abortVars, foremanVars, proxyVars,
                 prepVars, collector, storage_process, storage_joined,
                 workerVars, queueVars>>

\* Lines 1196-1204: the next worker process is put in the map, not yet
\* started (its pid is None); after the last one the loop ends.
MpCreateWorker ==
  /\ Running /\ pc = "mp_worker"
  /\ IF worker_nr < number_of_worker_processes
       THEN /\ worker_processes' = worker_processes \cup {worker_nr}
            /\ process_state' = [process_state EXCEPT ![worker_nr] = "created"]
            /\ pc' = "mp_worker_start"
       ELSE /\ pc' = "collect_test"
            /\ UNCHANGED <<worker_processes, process_state>>
  /\ UNCHANGED <<optionVars, callVars, abortVars, foremanVars, proxyVars,
                 prepVars, collector, childVars, worker_nr, drain_list,
                 queueVars>>

\* Lines 1208-1209 left out: no worker is registered.
RegisterWorkerSkipped(fs, foreman, w) == fs

\* Lines 1208-1209: the worker is registered if there is a Foreman.
RegisterWorker(fs, foreman, w) ==
  IF foreman = "object" THEN MonitorWorker(fs, w) ELSE fs

\* Lines 1206-1209: the worker is started and registered with the Foreman.
MpStartWorker ==
  /\ Running /\ pc = "mp_worker_start"
  /\ process_state' = [process_state EXCEPT ![worker_nr] = "alive"]
  /\ foreman_state' = RegisterWorker(foreman_state, worker_foreman, worker_nr)
  /\ worker_nr' = worker_nr + 1
  /\ pc' = "mp_worker"
  /\ UNCHANGED <<optionVars, callVars, abortVars, worker_foreman,
                 end_of_processing, proxyVars, prepVars, collector, childVars,
                 worker_processes, drain_list, queueVars>>

(***************************************************************************)
(* _ProcessSourceMultiProcessMode, steady state (lines 1211-1234).         *)
(***************************************************************************)
\* Lines 1212-1214: while the collection process is alive, join(10).
MpCollectTest ==
  /\ Running /\ pc = "collect_test"
  /\ pc' = IF IsAlive(collection_process) THEN "collect_poll" ELSE "mp_eop"
  /\ UNCHANGED <<optionVars, callVars, abortVars, foremanVars, proxyVars,
                 prepVars, collector, childVars, workerVars, queueVars>>

\* Lines 1216-1217: the Foreman checks every worker.
MpCollectPoll ==
  /\ Running /\ pc = "collect_poll"
  /\ foreman_state' = IF worker_foreman = "object"
                        THEN CheckStatusAll(foreman_state, process_state)
                        ELSE foreman_state
  /\ pc' = "collect_test"
  /\ UNCHANGED <<optionVars, callVars, abortVars, worker_foreman,
                 end_of_processing, proxyVars, prepVars, collector, childVars,
                 workerVars, queueVars>>

\* Lines 1224-1226.
MpSignalEndOfProcessing ==
  /\ Running /\ pc = "mp_eop"
  /\ end_of_processing' = IF worker_foreman = "object"
                            THEN end_of_processing + 1
                            ELSE end_of_processing
  /\ pc' = "mp_proxy_close"
  /\ UNCHANGED <<optionVars, callVars, abortVars, worker_foreman,
                 foreman_state, proxyVars, prepVars, collector, childVars,
                 workerVars, queueVars>>

\* Lines 1233-1234 without the join: the serving thread is left as it is.
ProxyThreadNotJoined(thread) == thread

\* Lines 1233-1234: after Close() the serving thread is joined if it is
\* still alive; either way it has ended afterwards.
JoinProxyThread(thread) == "joined"

\* Lines 1229-1234: engine_proxy is an object whenever a Foreman was asked
\* for, also when Open() failed; proxy_thread is then None and
\* proxy_thread.isAlive() is an AttributeError.
MpCloseProxy ==
  /\ Running /\ pc = "mp_proxy_close"
  /\ IF engine_proxy = "none"
       THEN /\ pc' = "drain_test"
            /\ UNCHANGED proxyVars
       ELSE /\ engine_proxy' = "closed"
            /\ IF proxy_thread = "none"
                 THEN /\ pc' = "crashed"
                      /\ UNCHANGED proxy_thread
                 ELSE /\ pc' = "drain_test"
                      /\ proxy_thread' = JoinProxyThread(proxy_thread)
  /\ UNCHANGED <<optionVars, callVars, abortVars, foremanVars, prepVars,
                 collector, childVars, workerVars, queueVars>>

(***************************************************************************)
(* The drain-workers loop (lines 1243-1284).                               *)
(***************************************************************************)
\* Lines 1243-1244: the loop test and the sorted snapshot of one pass.
DrainTest ==
  /\ Running /\ pc = "drain_test"
  /\ IF worker_processes = {}
       THEN /\ pc' = "mp_signal_storage"
            /\ UNCHANGED drain_list
       ELSE /\ pc' = "drain_item"
            /\ drain_list' = SortedSeq(worker_processes)
  /\ UNCHANGED <<optionVars, callVars, abortVars, foremanVars, proxyVars,
                 prepVars, collector, childVars, worker_processes,
                 process_state, worker_nr, queueVars>>

\* Lines 1245-1249 with a label for every worker.
WorkerLabelAlways(foreman, fs, w) == TRUE

\* Lines 1245-1249: the label the Foreman returns for the worker, None
\* when there is no Foreman.
WorkerLabel(foreman, fs, w) == foreman = "object" /\ GetLabel(fs, w)

\* Line 1273 with every exit code taken for 0.
ExitCodeIgnored(state) == TRUE

\* Line 1273: process_obj.exitcode != 0, for a process that is not alive.
ExitCodeZero(state) == state = "exit0"

\* Lines 1245-1284 for the next worker of the pass, up to the point where
\* the orchestrator waits or calls CheckStatus.
DrainItem ==
  /\ Running /\ pc = "drain_item"
  /\ IF drain_list = << >>
       THEN /\ pc' = "drain_test"
            /\ UNCHANGED <<drain_list, worker_processes, foreman_state>>
       ELSE LET w == Head(drain_list)
                label == WorkerLabel(worker_foreman, foreman_state, w)
            IN  IF ~label
                  THEN IF IsAlive(process_state[w])
                         \* line 1260: join() without a timeout
                         THEN /\ pc' = "drain_join"
                              /\ UNCHANGED <<drain_list, worker_processes,
                                             foreman_state>>
                         \* line 1264
                         ELSE /\ pc' = "drain_item"
                              /\ drain_list' = Tail(drain_list)
                              /\ worker_processes' =
                                   RemoveWorker(worker_processes, w)
                              /\ UNCHANGED foreman_state
                  ELSE IF IsAlive(process_state[w])
                         THEN /\ pc' = "drain_check"
                              /\ UNCHANGED <<drain_list, worker_processes,
                                             foreman_state>>
                  ELSE IF ~ExitCodeZero(process_state[w])
                         \* lines 1273-1278
                         THEN /\ pc' = "drain_item"
                              /\ drain_list' = Tail(drain_list)
                              /\ foreman_state' =
                                   TerminateProcess(foreman_state, w)
                              /\ UNCHANGED worker_processes
                         \* lines 1280-1284
                         ELSE /\ pc' = "drain_item"
                              /\ drain_list' = Tail(drain_list)
                              /\ foreman_state' =
                                   StopMonitoringWorker(foreman_state, w)
                              /\ worker_processes' =
                                   RemoveWorker(worker_processes, w)
  /\ UNCHANGED <<optionVars, callVars, abortVars, worker_foreman,
                 end_of_processing, proxyVars, prepVars, collector, childVars,
                 process_state, worker_nr, queueVars>>

\* Lines 1260-1265: join() returns once the process has exited; the worker
\* is then removed from the map.
DrainJoin ==
  /\ Running /\ pc = "drain_join"
  /\ JoinReturns(process_state[Head(drain_list)])
  /\ worker_processes' =
       RemoveWorker(worker_processes, Head(drain_list))
  /\ drain_list' = Tail(drain_list)
  /\ pc' = "drain_item"
  /\ UNCHANGED <<optionVars, callVars, abortVars, foremanVars, proxyVars,
                 prepVars, collector, childVars, process_state, worker_nr,
                 queueVars>>

\* Line 1270 with a join() that has no timeout.
JoinTimeoutWaits(state) == ~IsAlive(state)

\* Line 1270: join(5) returns after five seconds at the latest.
JoinTimeoutReturns(state) == TRUE

\* Lines 1269-1270: CheckStatus(label), then join(5), which returns whether
\* or not the worker has exited.
DrainCheck ==
  /\ Running /\ pc = "drain_check"
  /\ JoinTimeoutReturns(process_state[Head(drain_list)])
  /\ foreman_state' =
       CheckStatusLabel(foreman_state, process_state, Head(drain_list))
  /\ drain_list' = Tail(drain_list)
  /\ pc' = "drain_item"
  /\ UNCHANGED <<optionVars, callVars, abortVars, worker_foreman,
                 end_of_processing, proxyVars, prepVars, collector, childVars,
                 worker_processes, process_state, worker_nr, queueVars>>

(***************************************************************************)
(* Drain-storage (lines 1286-1290).                                        *)
(***************************************************************************)
\* Line 1288.
MpSignalStorage ==
  /\ Running /\ pc = "mp_signal_storage"
  /\ storage_eoi' = storage_eoi + 1
  /\ pc' = "mp_join_storage"
  /\ UNCHANGED <<optionVars, callVars, abortVars, foremanVars, proxyVars,
                 prepVars, collector, childVars, workerVars,
                 collection_queue>>

\* Line 1289: join() without a timeout.
MpJoinStorage ==
  /\ Running /\ pc = "mp_join_storage"
  /\ JoinReturns(storage_process)
  /\ storage_joined' = TRUE
  /\ pc' = "done"
  /\ UNCHANGED <<optionVars, callVars, abortVars, foremanVars, proxyVars,
                 prepVars, collector, collection_process, storage_process,
                 workerVars, queueVars>>

(***************************************************************************)
(* The collector (plaso/engine/collector.py).  Collect puts one item per   *)
(* file entry on the collection queue and then signals end of input; one   *)
(* collector object signals end of input at most once.                     *)
(***************************************************************************)
PushItem(q) == Append(q, "item")

\* An end of input that never reaches the queue.
SignalEndOfInputLost(q) == q

SignalEndOfInput(q) == Append(q, "eoi")

CanCollect(q) == Count(q, "item") < MaxItems

(***************************************************************************)
(* _StartSingleThread (lines 1311-1400), called by                         *)
(* _ProcessSourceSingleProcessMode (lines 1292-1309), which catches and    *)
(* logs every exception: pc = "sp_failed".                                 *)
(***************************************************************************)
\* Lines 1330-1338.
SpCreateEngine ==
  /\ Running /\ pc = "sp_engine"
  /\ engine' = TRUE
  /\ pc' = "sp_preprocess"
  /\ UNCHANGED <<optionVars, callVars, abortVars, foremanVars, proxyVars,
                 pre_obj, collection_information, number_of_worker_processes,
                 collector, childVars, workerVars, queueVars>>

\* Lines 1340-1343.
SpPreprocess ==
  /\ Running /\ pc = "sp_preprocess"
  /\ PreprocessSource("sp_collection_information")

\* Lines 1345-1365.
SpSetCollectionInformation ==
  /\ Running /\ pc = "sp_collection_information"
  /\ PreprocessSetCollectionInformation("sp_collector", "sp_failed")

\* Lines 1367-1372.
SpCreateCollector ==
  /\ Running /\ pc = "sp_collector"
  /\ collector' = "created"
  /\ pc' = "sp_collect"
  /\ UNCHANGED <<optionVars, callVars, abortVars, foremanVars, proxyVars,
                 prepVars, childVars, workerVars, queueVars>>

\* Line 1375: Collect() in the main process, one queue operation a step.
SpCollect ==
  /\ Running /\ pc = "sp_collect"
  /\ \E more \in BOOLEAN :
       IF more /\ CanCollect(collection_queue)
         THEN /\ collection_queue' = PushItem(collection_queue)
              /\ UNCHANGED <<pc, collector>>
         ELSE /\ collection_queue' = SignalEndOfInput(collection_queue)
              /\ collector' = "signalled"
              /\ pc' = "sp_run"
  /\ UNCHANGED <<optionVars, callVars, abortVars, foremanVars, proxyVars,
                 prepVars, childVars, workerVars, storage_eoi>>

\* Lines 1378-1382: the extraction worker runs in the main process.
SpRunWorker ==
  /\ Running /\ pc = "sp_run"
  /\ pc' = "sp_signal_storage"
  /\ UNCHANGED <<optionVars, callVars, abortVars, foremanVars, proxyVars,
                 prepVars, collector, childVars, workerVars, queueVars>>

\* Line 1384.
SpSignalStorage ==
  /\ Running /\ pc = "sp_signal_storage"
  /\ storage_eoi' = storage_eoi + 1
  /\ pc' = "sp_write"
  /\ UNCHANGED <<optionVars, callVars, abortVars, foremanVars, proxyVars,
                 prepVars, collector, childVars, workerVars,
                 collection_queue>>

\* Lines 1386-1400: the storage writer drains the queue in the main process.
SpWriteEventObjects ==
  /\ Running /\ pc = "sp_write"
  /\ pc' = "done"
  /\ UNCHANGED <<optionVars, callVars, abortVars, foremanVars, proxyVars,
                 prepVars, collector, childVars, workerVars, queueVars>>

(***************************************************************************)
(* The child processes.                                                    *)
(***************************************************************************)
\* The collection process (target Collect, line 1191) finds an item.
CollectorPutItem ==
  /\ IsAlive(collection_process)
  /\ CanCollect(collection_queue)
  /\ collection_queue' = PushItem(collection_queue)
  /\ UNCHANGED <<pc, optionVars, callVars, abortVars, foremanVars, proxyVars,
                 prepVars, collector, childVars, workerVars, storage_eoi>>

\* The collection process ends: its copy of the collector signals end of
\* input and the process exits.
CollectorFinish ==
  /\ IsAlive(collection_process)
  /\ collection_queue' = SignalEndOfInput(collection_queue)
  /\ collection_process' = "exited"
  /\ UNCHANGED <<pc, optionVars, callVars, abortVars, foremanVars, proxyVars,
                 prepVars, collector, storage_process, storage_joined,
                 workerVars, storage_eoi>>

\* Lines 1157-1165 and 1178-1179: the proxy thread serves the function
\* 'signal_end_of_collection', registered with the handler
\* worker_foreman.SignalEndOfProcessing, and the collector holds a client
\* of the proxy.  The collection process calls it when collection is done,
\* which may be before that process has exited (comment at lines
\* 1217-1219); the proxy thread then runs the handler in the main process.
RpcSignalEndOfCollection ==
  /\ engine_proxy = "open" /\ proxy_thread = "alive"
  /\ IsAlive(collection_process)
  /\ end_of_processing = 0
  /\ end_of_processing' = end_of_processing + 1
  /\ UNCHANGED <<pc, optionVars, callVars, abortVars, worker_foreman,
                 foreman_state, proxyVars, prepVars, collector, childVars,
                 workerVars, queueVars>>

\* A worker process (target Run, line 1203) has seen the end of the
\* collection queue and exits with code 0.
WorkerComplete(w) ==
  /\ IsAlive(process_state[w])
  /\ Count(collection_queue, "eoi") > 0
  /\ process_state' = [process_state EXCEPT ![w] = "exit0"]
  /\ UNCHANGED <<pc, optionVars, callVars, abortVars, foremanVars, proxyVars,
                 prepVars, collector, childVars, worker_processes, worker_nr,
                 drain_list, queueVars>>

\* A worker process fails or is killed from outside: a non-zero exit code.
WorkerCrash(w) ==
  /\ IsAlive(process_state[w])
  /\ process_state' = [process_state EXCEPT ![w] = "exit1"]
  /\ UNCHANGED <<pc, optionVars, callVars, abortVars, foremanVars, proxyVars,
                 prepVars, collector, childVars, worker_processes, worker_nr,
                 drain_list, queueVars>>

\* The storage process (target WriteEventObjects, line 1185) exits once it
\* has seen end of input on the storage queue.
StorageExit ==
  /\ IsAlive(storage_process)
  /\ storage_eoi > 0
  /\ storage_process' = "exited"
  /\ UNCHANGED <<pc, optionVars, callVars, abortVars, foremanVars, proxyVars,
                 prepVars, collector, collection_process, storage_joined,
                 workerVars, queueVars>>

(***************************************************************************)
(* CleanUpAfterAbort (lines 1403-1470).  The caller runs it when a         *)
(* KeyboardInterrupt ends ProcessSource; the main flow never resumes.      *)
(***************************************************************************)
RunEnded == pc \in {"done", "crashed", "sp_failed"}

Interrupt ==
  /\ Running /\ ~RunEnded
  /\ apc' = "a_start"
  /\ UNCHANGED <<pc, second_interrupt, kill_list, optionVars, callVars,
                 foremanVars, proxyVars, prepVars, collector, childVars,
                 workerVars, queueVars>>

\* Lines 1405-1408.
AbortStart ==
  /\ apc = "a_start"
  /\ apc' = IF single_process_mode /\ debug_mode THEN "returned"
            ELSE "a_collector"
  /\ UNCHANGED <<pc, second_interrupt, kill_list, optionVars, callVars,
                 foremanVars, proxyVars, prepVars, collector, childVars,
                 workerVars, queueVars>>

\* Lines 1410-1412: the main process's copy of the collector signals end
\* of input.
AbortStopCollector ==
  /\ apc = "a_collector"
  /\ IF collector = "created"
       THEN /\ collection_queue' = SignalEndOfInput(collection_queue)
            /\ collector' = "signalled"
       ELSE UNCHANGED <<collection_queue, collector>>
  /\ apc' = "a_storage"
  /\ UNCHANGED <<pc, second_interrupt, kill_list, optionVars, callVars,
                 foremanVars, proxyVars, prepVars, childVars, workerVars,
                 storage_eoi>>

\* Lines 1414-1415: self._engine is None until the run has made the
\* engine, and None.SignalEndOfInputStorageQueue is an AttributeError.
AbortStopStorage ==
  /\ apc = "a_storage"
  /\ IF engine
       THEN /\ storage_eoi' = storage_eoi + 1
            /\ apc' = "a_terminate"
       ELSE /\ apc' = "raised"
            /\ UNCHANGED storage_eoi
  /\ UNCHANGED <<pc, second_interrupt, kill_list, optionVars, callVars,
                 foremanVars, proxyVars, prepVars, collector, childVars,
                 workerVars, collection_queue>>

\* Lines 1417-1424: terminate() of a process that was never started is an
\* AttributeError; then the iteration over the worker map starts.
AbortTerminateCollection ==
  /\ apc = "a_terminate"
  /\ IF collection_process = "created"
       THEN /\ apc' = "raised"
            /\ UNCHANGED <<collection_process, kill_list>>
       ELSE /\ apc' = "a_kill"
            /\ kill_list' = worker_processes
            /\ collection_process' = IF IsAlive(collection_process)
                                       THEN "exited"
                                       ELSE collection_process
  /\ UNCHANGED <<pc, second_interrupt, optionVars, callVars, foremanVars,
                 proxyVars, prepVars, collector, storage_process,
                 storage_joined, workerVars, queueVars>>

\* Lines 1424-1445 for one worker, in the order iteritems() yields them.
\* The pid of a process that was not started is None, and formatting it
\* with {1:d} at line 1426 is a ValueError.
AbortKillWorker ==
  /\ apc = "a_kill"
  /\ \E w \in kill_list :
       IF process_state[w] = "created"
         THEN /\ apc' = "raised"
              /\ UNCHANGED <<kill_list, process_state>>
         ELSE /\ kill_list' = kill_list \ {w}
              /\ process_state' =
                   [process_state EXCEPT
                      ![w] = IF IsAlive(@) THEN "exit1" ELSE @]
              /\ UNCHANGED apc
  /\ UNCHANGED <<pc, second_interrupt, optionVars, callVars, foremanVars,
                 proxyVars, prepVars, collector, childVars, worker_processes,
                 worker_nr, drain_list, queueVars>>

\* Lines 1447-1451: the storage process is joined if the front-end has an
\* attribute storage_process.
AbortJoinStorage ==
  /\ apc = "a_kill" /\ kill_list = {}
  /\ HasAttrStorageProcess => JoinReturns(storage_process)
  /\ storage_joined' = (storage_joined \/ HasAttrStorageProcess)
  /\ apc' = "a_exit"
  /\ UNCHANGED <<pc, second_interrupt, kill_list, optionVars, callVars,
                 foremanVars, proxyVars, prepVars, collector,
                 collection_process, storage_process, workerVars, queueVars>>

\* Lines 1453-1456 and 1468-1470: except on Windows the main process kills
\* itself; on Windows CleanUpAfterAbort returns.
KillSelf == \E windows \in BOOLEAN :
  apc' = IF windows THEN "returned" ELSE "killed"

AbortExit ==
  /\ apc = "a_exit"
  /\ KillSelf
  /\ UNCHANGED <<pc, second_interrupt, kill_list, optionVars, callVars,
                 foremanVars, proxyVars, prepVars, collector, childVars,
                 workerVars, queueVars>>

\* Line 1458: a KeyboardInterrupt inside the try block (lines 1422-1456).
SecondInterrupt ==
  /\ apc \in {"a_kill", "a_exit"}
  /\ apc' = "h_workers"
  /\ second_interrupt' = TRUE
  /\ UNCHANGED <<pc, kill_list, optionVars, callVars, foremanVars, proxyVars,
                 prepVars, collector, childVars, workerVars, queueVars>>

\* Lines 1459-1461: the loop iterates over the keys of the worker map, the
\* worker names; a name has no terminate(), an AttributeError.
HandlerTerminateWorkers ==
  /\ apc = "h_workers"
  /\ apc' = IF worker_processes = {} THEN "h_storage" ELSE "raised"
  /\ UNCHANGED <<pc, second_interrupt, kill_list, optionVars, callVars,
                 foremanVars, proxyVars, prepVars, collector, childVars,
                 workerVars, queueVars>>

\* Lines 1463-1466.
HandlerTerminateStorage ==
  /\ apc = "h_storage"
  /\ storage_process' = IF HasAttrStorageProcess /\ IsAlive(storage_process)
                          THEN "exited" ELSE storage_process
  /\ apc' = "h_exit"
  /\ UNCHANGED <<pc, second_interrupt, kill_list, optionVars, callVars,
                 foremanVars, proxyVars, prepVars, collector,
                 collection_process, storage_joined, workerVars, queueVars>>

\* Lines 1468-1470.
HandlerExit ==
  /\ apc = "h_exit"
  /\ KillSelf
  /\ UNCHANGED <<pc, second_interrupt, kill_list, optionVars, callVars,
                 foremanVars, proxyVars, prepVars, collector, childVars,
                 workerVars, queueVars>>

(***************************************************************************)
(* The specifications.                                                     *)
(***************************************************************************)
MainFlow ==
  \/ ProcessSource
  \/ MpPoolSize \/ MpCreateEngine \/ MpPreprocess
  \/ MpSetCollectionInformation \/ MpStartForeman \/ MpCreateCollector
  \/ MpStartStorage \/ MpCreateCollection \/ MpStartCollection
  \/ MpCreateWorker \/ MpStartWorker
  \/ MpCollectTest \/ MpCollectPoll \/ MpSignalEndOfProcessing
  \/ MpCloseProxy
  \/ DrainTest \/ DrainItem \/ DrainJoin \/ DrainCheck
  \/ MpSignalStorage \/ MpJoinStorage
  \/ SpCreateEngine \/ SpPreprocess \/ SpSetCollectionInformation
  \/ SpCreateCollector \/ SpCollect \/ SpRunWorker \/ SpSignalStorage
  \/ SpWriteEventObjects

CleanUpAfterAbort ==
  \/ AbortStart \/ AbortStopCollector \/ AbortStopStorage
  \/ AbortTerminateCollection \/ AbortKillWorker \/ AbortJoinStorage
  \/ AbortExit \/ HandlerTerminateWorkers \/ HandlerTerminateStorage
  \/ HandlerExit

Collector ==
  CollectorPutItem \/ CollectorFinish \/ RpcSignalEndOfCollection

WorkerExit(w) == WorkerComplete(w) \/ WorkerCrash(w)

Next ==
  \/ MainFlow
  \/ Interrupt \/ SecondInterrupt
  \/ CleanUpAfterAbort
  \/ Collector
  \/ \E w \in Workers : WorkerExit(w)
  \/ StorageExit

Spec == Init /\ [][Next]_vars

\* The main process, the abort handler and every child process keep running
\* while they can; interrupts are not forced to happen.
FairSpec ==
  /\ Spec
  /\ WF_vars(MainFlow)
  /\ WF_vars(CleanUpAfterAbort)
  /\ WF_vars(Collector)
  /\ \A w \in Workers : WF_vars(WorkerExit(w))
  /\ WF_vars(StorageExit)

\* Runs in which no interrupt arrives.
NextRun ==
  \/ MainFlow
  \/ Collector
  \/ \E w \in Workers : WorkerExit(w)
  \/ StorageExit

FairRun ==
  /\ Init /\ [][NextRun]_vars
  /\ WF_vars(MainFlow)
  /\ WF_vars(Collector)
  /\ \A w \in Workers : WF_vars(WorkerExit(w))
  /\ WF_vars(StorageExit)

(***************************************************************************)
(* Definitions shared by the properties.                                   *)
(***************************************************************************)
\* The workers of the initial pool.
Pool == {w \in Workers : w < number_of_worker_processes}

MultiProcess == ~single_process_mode

\* CleanUpAfterAbort has ended: the main process killed itself, the call
\* returned, or it raised an exception.
AbortEnded == apc \in {"killed", "returned", "raised"}

InDrain == pc \in {"drain_test", "drain_item", "drain_join", "drain_check"}

SteadyState == pc \in {"collect_test", "collect_poll"}

NoItemAfterSentinel(q) ==
  \A i, j \in DOMAIN q : (q[i] = "eoi" /\ i < j) => q[j] # "item"

(***************************************************************************)
(* C1.  In a multi-process run that is not aborted, the main flow signals  *)
(* end of input on the storage queue only from a state in which the        *)
(* collection process has exited, the worker map is empty and every worker *)
(* of the pool has exited.                                                 *)
(***************************************************************************)
C1_StorageSignalAfterWorkers ==
  [][(Running /\ MultiProcess /\ storage_eoi' # storage_eoi) =>
       /\ collection_process = "exited"
       /\ worker_processes = {}
       /\ \A w \in Pool : Exited(process_state[w])]_vars

\* The signal was given in a run with a worker that completed and a worker
\* that failed.
C1_Witness ==
  /\ MultiProcess /\ Running /\ pc = "mp_join_storage" /\ storage_eoi = 1
  /\ \E v, w \in Pool : process_state[v] = "exit0" /\ process_state[w] = "exit1"

(***************************************************************************)
(* C2.  When no interrupt arrives and every worker process eventually      *)
(* exits, the drain-workers loop, once entered, ends with an empty worker  *)
(* map, whatever the exit codes and whether or not the workers are         *)
(* monitored.                                                              *)
(***************************************************************************)
C2_DrainLoopTerminates ==
  InDrain ~> (pc = "mp_signal_storage" /\ worker_processes = {})

\* The loop has passed a monitored worker that exited with a non-zero code:
\* the worker is still in the map and the Foreman has it as terminated.
C2_Witness ==
  /\ pc = "drain_item"
  /\ \E w \in worker_processes :
       /\ \A i \in DOMAIN drain_list : drain_list[i] # w
       /\ process_state[w] = "exit1"
       /\ foreman_state[w] = "terminated"

(***************************************************************************)
(* C3.  A worker that exits with a non-zero code does not keep a           *)
(* multi-process run from reaching DONE: when the Foreman has marked a     *)
(* worker as terminated and the main flow has stopped without an           *)
(* interrupt, the run is done: end of input was signalled on the storage   *)
(* queue and the storage process joined.                                   *)
(***************************************************************************)
C3_WorkerFailureContained ==
  (MultiProcess /\ Running /\ RunEnded
     /\ \E w \in Pool : foreman_state[w] = "terminated") =>
    /\ pc = "done"
    /\ storage_eoi = 1
    /\ storage_joined

(***************************************************************************)
(* C4.  When CleanUpAfterAbort has run during the steady state and the     *)
(* main process has exited, the storage process has been joined and no     *)
(* child process is alive.                                                 *)
(***************************************************************************)
C4_AbortJoinsStorage ==
  (SteadyState /\ apc \in {"killed", "returned"}) =>
    /\ storage_joined
    /\ ~IsAlive(storage_process)
    /\ ~IsAlive(collection_process)
    /\ \A w \in Workers : ~IsAlive(process_state[w])

(***************************************************************************)
(* C5.  When CleanUpAfterAbort has ended without a second interrupt, end   *)
(* of input was signalled on both queues, the collection process is not    *)
(* alive and no worker of the worker map is left alive.                    *)
(***************************************************************************)
C5_AbortKillsEveryWorker ==
  (AbortEnded /\ ~second_interrupt /\ engine
     /\ ~(single_process_mode /\ debug_mode)) =>
    /\ storage_eoi > 0
    /\ ~IsAlive(collection_process)
    /\ \A w \in worker_processes : ~IsAlive(process_state[w])

(***************************************************************************)
(* C6.  After a second interrupt that arrives while workers are in the     *)
(* worker map, the handler ends without an exception, and then no worker   *)
(* of the worker map and no storage process is alive.                      *)
(***************************************************************************)
C6_SecondInterruptTerminatesAll ==
  (second_interrupt /\ AbortEnded /\ worker_processes # {}) =>
    /\ apc # "raised"
    /\ \A w \in worker_processes : ~IsAlive(process_state[w])
    /\ ~IsAlive(storage_process)

(***************************************************************************)
(* C7.  CleanUpAfterAbort raises no exception, in whatever state of the    *)
(* run the first interrupt arrives.                                        *)
(***************************************************************************)
C7_AbortNeverRaises == ~(apc = "raised" /\ ~second_interrupt)

(***************************************************************************)
(* C8.  When the RPC proxy failed to start, the run goes on without a      *)
(* Foreman and, when its main flow has stopped without an interrupt, it    *)
(* is done: end of input was signalled and the storage process joined.     *)
(***************************************************************************)
C8_ProxyFailureContained ==
  (MultiProcess /\ Running /\ RunEnded /\ proxy_thread = "none") =>
    /\ pc = "done"
    /\ storage_eoi = 1
    /\ storage_joined

(***************************************************************************)
(* C9.  The collection queue never holds more than one end-of-input        *)
(* sentinel, and no item is put on it after a sentinel.                    *)
(***************************************************************************)
C9_OneCollectionSentinel ==
  /\ Count(collection_queue, "eoi") <= 1
  /\ NoItemAfterSentinel(collection_queue)

(***************************************************************************)
(* C10.  When the main flow of a run has ended without an interrupt, end   *)
(* of input was signalled on the storage queue exactly once and, in        *)
(* multi-process mode, the storage process has exited and was joined.      *)
(***************************************************************************)
C10_StorageSignalledOnce ==
  (Running /\ RunEnded) =>
    /\ storage_eoi = 1
    /\ MultiProcess => (storage_joined /\ storage_process = "exited")

(***************************************************************************)
(* C11.  The call of the Foreman's SignalEndOfProcessing that              *)
(* _ProcessSourceMultiProcessMode makes itself (line 1226) happens only    *)
(* after the collection process has exited and while the RPC proxy is not  *)
(* yet closed; and the drain-workers loop is entered only with the proxy   *)
(* closed and its serving thread ended, when a proxy was started.  (The    *)
(* Foreman may get the same signal earlier over the proxy.)                *)
(***************************************************************************)
C11_SignalThenCloseThenDrain ==
  [][/\ (pc = "mp_eop" /\ pc' # pc) =>
          /\ collection_process = "exited"
          /\ engine_proxy # "closed"
          /\ proxy_thread # "joined"
     /\ (pc' = "drain_test" /\ pc # pc') =>
          /\ engine_proxy' \in {"none", "closed"}
          /\ proxy_thread' \in {"unset", "joined"}]_vars

\* A run with a Foreman and a started proxy enters the drain-workers loop
\* after both deliveries of the signal.
C11_Witness ==
  /\ pc = "drain_test" /\ Running
  /\ engine_proxy = "closed" /\ proxy_thread = "joined"
  /\ end_of_processing = 2

\* C11 as stated: every delivery of SignalEndOfProcessing to the Foreman
\* happens after the collection process has exited.
C11_SignalOnlyAfterCollectorExit ==
  [][end_of_processing' # end_of_processing =>
       collection_process = "exited"]_vars

\* A worker process that start() was called for.
Started(state) == state \in {"alive", "exit0", "exit1"}

(***************************************************************************)
(* C12.  Start-up order of a multi-process run: the collection process is  *)
(* started only with the storage process started; a worker process is      *)
(* created only with the collection process started and with every worker  *)
(* of a lower number started and, exactly when a Foreman was asked for,    *)
(* registered with it; and when the start-up loop ends the worker map      *)
(* holds exactly the N workers of the pool, all started.                   *)
(***************************************************************************)
C12_StartUpOrder ==
  [][/\ (collection_process # "alive" /\ collection_process' = "alive") =>
          storage_process # "none"
     /\ \A w \in Workers :
          (process_state[w] = "none" /\ process_state'[w] # "none") =>
            /\ collection_process \in {"alive", "exited"}
            /\ \A v \in Workers : v < w =>
                 /\ Started(process_state[v])
                 /\ run_foreman <=> (foreman_state[v] = "monitored")
     /\ (pc = "mp_worker" /\ pc' = "collect_test") =>
          /\ worker_processes' = Pool
          /\ Cardinality(worker_processes') = number_of_worker_processes
          /\ \A w \in Pool :
               /\ Started(process_state'[w])
               /\ run_foreman <=> (foreman_state'[w] = "monitored")]_vars

\* The start-up of two monitored workers has ended.
C12_Witness ==
  /\ pc = "collect_test" /\ Running /\ run_foreman
  /\ Cardinality(worker_processes) = 2
  /\ \A w \in worker_processes : foreman_state[w] = "monitored"

\* The workers a step deletes from the worker map.
Removed == worker_processes \ worker_processes'

(***************************************************************************)
(* C13.  A worker is deleted from the worker map only when its process is  *)
(* not alive, and then either the Foreman had no label for it, or its exit *)
(* code is 0 and the step called StopMonitoringWorker for it.  A worker    *)
(* that is monitored and alive is never deleted.                           *)
(***************************************************************************)
C13_RemovedOnlyWhenNotAlive ==
  [][\A w \in Removed :
       /\ ~IsAlive(process_state[w])
       /\ \/ worker_foreman # "object"
          \/ ~GetLabel(foreman_state, w)
          \/ /\ process_state[w] = "exit0"
             /\ foreman_state'[w] = "unmonitored"]_vars

\* Both kinds of removal have happened in a monitored run: a worker that
\* exited with code 0 and one that the Foreman recorded as terminated.
C13_Witness ==
  /\ Running /\ run_foreman /\ pc = "mp_signal_storage"
  /\ \E v, w \in Pool \ worker_processes :
       /\ process_state[v] = "exit0" /\ foreman_state[v] = "unmonitored"
       /\ process_state[w] = "exit1" /\ foreman_state[w] = "terminated"

(***************************************************************************)
(* C14.  In the drain-workers loop every Foreman call for a worker is made *)
(* for the worker of the current pass and with a label the Foreman has     *)
(* for it: CheckStatus(label) (the step at lines 1269-1270),               *)
(* TerminateProcess (the worker becomes terminated) and                    *)
(* StopMonitoringWorker (the worker becomes unmonitored).                  *)
(* StopMonitoringWorker is called at most once for a worker: the call      *)
(* deletes the worker from the map and a deleted worker never returns.     *)
(***************************************************************************)
C14_ForemanCallsUseLabel ==
  [][/\ (pc = "drain_check" /\ pc' # pc) =>
          GetLabel(foreman_state, Head(drain_list))
     /\ \A w \in Workers :
          /\ (pc \in {"drain_item", "drain_check"}
              /\ foreman_state'[w] # foreman_state[w]) =>
               /\ drain_list # << >> /\ w = Head(drain_list)
               /\ worker_foreman = "object" /\ GetLabel(foreman_state, w)
          /\ (foreman_state[w] # "unmonitored"
              /\ foreman_state'[w] = "unmonitored") =>
               /\ w \in worker_processes /\ w \notin worker_processes'
          /\ (w \notin worker_processes /\ w \in worker_processes') =>
               /\ pc = "mp_worker" /\ process_state[w] = "none"]_vars

\* In the loop the Foreman has one worker recorded as terminated, and
\* StopMonitoringWorker has been called for another.
C14_Witness ==
  /\ Running /\ InDrain /\ run_foreman
  /\ \E v, w \in Pool :
       /\ foreman_state[v] = "terminated" /\ process_state[v] = "exit1"
       /\ foreman_state[w] = "unmonitored" /\ w \notin worker_processes

\* The worker the drain-workers loop is looking at.
DrainWorker == Head(drain_list)

(***************************************************************************)
(* C15.  In the drain-workers loop a worker without a label whose process  *)
(* is alive is waited for with join() without a timeout: the loop goes on  *)
(* only when the process has exited, then deletes the worker from the map  *)
(* in the same pass and makes no Foreman call for it.  A worker with a     *)
(* label whose process is alive is polled with CheckStatus(label) and      *)
(* joined with a timeout: that step can always be taken, leaves the worker *)
(* in the map and moves the loop to the next worker.                       *)
(***************************************************************************)
C15_DrainJoinPolicy ==
  /\ [][/\ (pc = "drain_item" /\ pc' # pc /\ drain_list # << >>
            /\ IsAlive(process_state[DrainWorker])) =>
             IF WorkerLabel(worker_foreman, foreman_state, DrainWorker)
               THEN pc' = "drain_check"
               ELSE pc' = "drain_join"
        /\ (pc = "drain_join" /\ pc' # pc) =>
             /\ ~IsAlive(process_state[DrainWorker])
             /\ DrainWorker \notin worker_processes'
             /\ drain_list' = Tail(drain_list)
             /\ foreman_state' = foreman_state
        /\ (pc = "drain_check" /\ pc' # pc) =>
             /\ DrainWorker \in worker_processes'
             /\ drain_list' = Tail(drain_list)
             /\ foreman_state' = CheckStatusLabel(foreman_state,
                                                  process_state, DrainWorker)
       ]_vars
  /\ [](pc = "drain_check" /\ Running => ENABLED DrainCheck)

\* Without a Foreman the loop has deleted one worker and waits, without a
\* timeout, for the next one, which is still alive.
C15_Witness ==
  /\ Running /\ pc = "drain_join" /\ worker_foreman = "none"
  /\ IsAlive(process_state[DrainWorker])
  /\ \E w \in Pool \ worker_processes : w < DrainWorker

(***************************************************************************)
(* The pool size computation of lines 1073-1091 on its own, for worker     *)
(* options from -1 to MaxWorkersOption and 1 to MaxCpuCount CPUs.          *)
(***************************************************************************)
PoolSizeInit ==
  /\ pc = "pool_size"
  /\ single_process_mode = FALSE
  /\ debug_mode = FALSE
  /\ run_foreman = FALSE
  /\ source_type = "directory"
  /\ Constructed
  /\ args \in (-1 .. MaxWorkersOption) \X (1 .. MaxCpuCount)
  /\ result = << >>

ApplyPoolSize ==
  /\ pc = "pool_size" /\ result = << >>
  /\ result' = <<PoolSize(args[1], args[2])>>
  /\ UNCHANGED <<pc, args, optionVars, abortVars, foremanVars, proxyVars,
                 prepVars, collector, childVars, workerVars, queueVars>>

PoolSizeSpec == PoolSizeInit /\ [][ApplyPoolSize]_vars

(***************************************************************************)
(* C16.  For a worker option N and c CPUs the pool size is N when N >= 1   *)
(* and otherwise min(max(c - 3, 2), 15); it is always at least 1 and, when *)
(* N < 1, between 2 and 15.                                                *)
(***************************************************************************)
C16_PoolSize ==
  result # << >> =>
    LET N == args[1]
        c == args[2]
        size == result[1]
        low == IF c - 3 > 2 THEN c - 3 ELSE 2
        clamped == IF low < 15 THEN low ELSE 15
    IN  /\ N >= 1 => size = N
        /\ N < 1 => size = clamped /\ 2 <= size /\ size <= 15
        /\ size >= 1

\* No worker option and so many CPUs that the pool is cut down to 15.
C16_Witness ==
  /\ result # << >> /\ args[1] < 1 /\ args[2] - 3 > 15 /\ result[1] = 15

(***************************************************************************)
(* StorageMediaFrontend._ParseVssStores (lines 486-528).  A string is a    *)
(* sequence of characters; the operators below do what str.split, the      *)
(* test '..' in s, int(s, 10), range, list.append and sorted do.           *)
(***************************************************************************)
Digit == <<"0", "1", "2", "3", "4", "5", "6", "7", "8", "9">>

Digits == {Digit[i] : i \in 1 .. 10}

DigitValue(c) == (CHOOSE i \in 1 .. 10 : Digit[i] = c) - 1

\* The value of a non-empty string of digits.
RECURSIVE DigitsValue(_)
DigitsValue(s) ==
  IF s = << >> THEN 0
  ELSE DigitsValue(SubSeq(s, 1, Len(s) - 1)) * 10 + DigitValue(s[Len(s)])

AllDigits(s) == s # << >> /\ \A i \in 1 .. Len(s) : s[i] \in Digits

\* int(s, 10) raises ValueError unless s is a string of digits with an
\* optional sign (of the characters the model uses, "-").
IsInt(s) ==
  \/ AllDigits(s)
  \/ Len(s) >= 2 /\ s[1] = "-" /\ AllDigits(Tail(s))

\* int(s, 10) turned into a number that counts from 0.
ToIntZeroBased(s) ==
  (IF s[1] = "-" THEN 0 - DigitsValue(Tail(s)) ELSE DigitsValue(s)) - 1

\* int(s, 10) for a string that IsInt accepts.
ToInt(s) == IF s[1] = "-" THEN 0 - DigitsValue(Tail(s)) ELSE DigitsValue(s)

\* s.split(','): the pieces between the commas, empty pieces included.
SplitComma(s) ==
  LET commas == SelectSeq([i \in 1 .. Len(s) |-> i], LAMBDA i : s[i] = ",")
      n == Len(commas)
  IN  [k \in 1 .. (n + 1) |->
         SubSeq(s, IF k = 1 THEN 1 ELSE commas[k - 1] + 1,
                   IF k = n + 1 THEN Len(s) ELSE commas[k] - 1)]

\* '..' in s
HasDots(s) == \E i \in 1 .. (Len(s) - 1) : s[i] = "." /\ s[i + 1] = "."

\* s.split('..'): cuts at the leftmost '..' and goes on behind it.
RECURSIVE SplitDots(_)
SplitDots(s) ==
  IF ~HasDots(s)
    THEN <<s>>
    ELSE LET i == CHOOSE k \in 1 .. (Len(s) - 1) :
                    /\ s[k] = "." /\ s[k + 1] = "."
                    /\ \A j \in 1 .. (k - 1) : ~(s[j] = "." /\ s[j + 1] = ".")
         IN  <<SubSeq(s, 1, i - 1)>> \o SplitDots(SubSeq(s, i + 2, Len(s)))

Elements(seq) == {seq[i] : i \in 1 .. Len(seq)}

\* Lines 516 and 525 without the test: every number counts as new.
AlwaysNew(stores, store_number) == TRUE

\* Lines 516 and 525: store_number not in stores.
NotInStores(stores, store_number) == store_number \notin Elements(stores)

\* range(first_store, last_store + 1)
Range(first_store, last_store) ==
  [i \in 1 .. (last_store + 1 - first_store) |-> first_store + i - 1]

\* The list the loop of lines 503-526 builds from the numbers it meets, in
\* the order it meets them: a number is appended unless the list built so
\* far has it.
AppendEachNew(numbers) ==
  LET new == SelectSeq([i \in 1 .. Len(numbers) |-> i],
                       LAMBDA i : NotInStores(SubSeq(numbers, 1, i - 1),
                                              numbers[i]))
  IN  [k \in 1 .. Len(new) |-> numbers[new[k]]]

\* sorted(seq): every element goes to the place given by the number of
\* smaller elements and of equal elements before it.
Place(seq, i) ==
  Cardinality({j \in DOMAIN seq :
                 seq[j] < seq[i] \/ (seq[j] = seq[i] /\ j <= i)})

Sorted(seq) ==
  [k \in DOMAIN seq |-> seq[CHOOSE i \in DOMAIN seq : Place(seq, i) = k]]

Returns(stores) == [raised |-> "none", stores |-> stores]

Raises(exception) == [raised |-> exception, stores |-> << >>]

\* Lines 506-523 for one piece of the expression: the exception it raises,
\* if any.  Line 507 unpacks the pieces of split('..') into two names
\* outside the try block: any other number of pieces is a ValueError that
\* nothing turns into BadConfigOption.
RangeError(vss_store_range) ==
  LET pieces == SplitDots(vss_store_range)
  IN  IF HasDots(vss_store_range)
        THEN IF Len(pieces) # 2 THEN "ValueError"
             ELSE IF ~IsInt(pieces[1]) \/ ~IsInt(pieces[2])
                    THEN "BadConfigOption"
             ELSE "none"
        ELSE IF ~IsInt(vss_store_range) THEN "BadConfigOption" ELSE "none"

\* Lines 515 and 520: the numbers one piece stands for, in order.
RangeNumbers(vss_store_range) ==
  LET pieces == SplitDots(vss_store_range)
  IN  IF HasDots(vss_store_range)
        THEN Range(ToInt(pieces[1]), ToInt(pieces[2]))
        ELSE <<ToInt(vss_store_range)>>

\* The numbers of all pieces, one piece after the other.
RECURSIVE AllNumbers(_)
AllNumbers(ranges) ==
  IF ranges = << >> THEN << >>
  ELSE IF Len(ranges) = 1 THEN RangeNumbers(ranges[1])
  ELSE LET half == Len(ranges) \div 2
       IN  AllNumbers(SubSeq(ranges, 1, half))
             \o AllNumbers(SubSeq(ranges, half + 1, Len(ranges)))

\* Lines 503-528: the loop stops at the first piece that raises.
ParseRanges(ranges) ==
  LET bad == {i \in DOMAIN ranges : RangeError(ranges[i]) # "none"}
      first == CHOOSE i \in bad : \A j \in bad : i <= j
  IN  IF bad # {} THEN Raises(RangeError(ranges[first]))
      ELSE Returns(Sorted(AppendEachNew(AllNumbers(ranges))))

\* _ParseVssStores (lines 486-528).
ParseVssStores(vss_stores) ==
  IF vss_stores = << >> THEN Returns(<< >>)
  ELSE ParseRanges(SplitComma(vss_stores))

\* str(n) for an integer.
RECURSIVE NaturalToString(_)
NaturalToString(n) ==
  IF n < 10 THEN <<Digit[n + 1]>>
  ELSE NaturalToString(n \div 10) \o <<Digit[(n % 10) + 1]>>

IntToString(n) ==
  IF n < 0 THEN <<"-">> \o NaturalToString(0 - n) ELSE NaturalToString(n)

\* ','.join(str(n) for n in stores)
RECURSIVE Render(_)
Render(stores) ==
  IF stores = << >> THEN << >>
  ELSE IF Len(stores) = 1 THEN IntToString(stores[1])
  ELSE LET half == Len(stores) \div 2
       IN  Render(SubSeq(stores, 1, half)) \o <<",">>
             \o Render(SubSeq(stores, half + 1, Len(stores)))

(***************************************************************************)
(* _ParseVssStores on its own: an expression is parsed, and a list it      *)
(* returns is written out and parsed again.                                *)
(***************************************************************************)
VssAlphabet == {"1", "3", "5", ",", ".", "-"}

\* The numbers of an expression have at most MaxDigits digits.
MaxDigits == MaxExpressionLen \div 3

NoLongNumber(s) ==
  \A i \in 1 .. (Len(s) - MaxDigits) :
    \E j \in i .. (i + MaxDigits) : s[j] \notin Digits

VssExpressions ==
  {s \in UNION {[1 .. n -> VssAlphabet] : n \in 0 .. MaxExpressionLen} :
     NoLongNumber(s)}

ParseInit ==
  /\ pc = "parse_vss_stores"
  /\ single_process_mode = FALSE
  /\ debug_mode = FALSE
  /\ run_foreman = FALSE
  /\ source_type = "image"
  /\ Constructed
  /\ args \in {<<s>> : s \in VssExpressions}
  /\ result = << >>

ApplyParseVssStores ==
  /\ pc = "parse_vss_stores"
  /\ result' = <<ParseVssStores(args[1])>>
  /\ pc' = "parsed"
  /\ UNCHANGED <<args, optionVars, abortVars, foremanVars, proxyVars,
                 prepVars, collector, childVars, workerVars, queueVars>>

RenderAndParse ==
  /\ pc = "parsed" /\ result[1].raised = "none"
  /\ args' = Append(args, Render(result[1].stores))
  /\ result' = Append(result, ParseVssStores(Render(result[1].stores)))
  /\ pc' = "parsed_again"
  /\ UNCHANGED <<optionVars, abortVars, foremanVars, proxyVars, prepVars,
                 collector, childVars, workerVars, queueVars>>

ParseNext == ApplyParseVssStores \/ RenderAndParse

ParseSpec == ParseInit /\ [][ParseNext]_vars

\* The outcome of the first call and, once made, of the second one.
Parsed == result # << >>

Accepted == Parsed /\ result[1].raised = "none"

\* A well-formed range A..B: two integers around one '..'.
IsRange(s) ==
  /\ HasDots(s) /\ Len(SplitDots(s)) = 2
  /\ IsInt(SplitDots(s)[1]) /\ IsInt(SplitDots(s)[2])

\* The integers an integer or a range A..B lists.
Listed(s) ==
  IF IsRange(s) THEN ToInt(SplitDots(s)[1]) .. ToInt(SplitDots(s)[2])
  ELSE {ToInt(s)}

Ascending(seq) ==
  \A i, j \in DOMAIN seq : i < j => seq[i] < seq[j]

(***************************************************************************)
(* C17.  For every expression _ParseVssStores accepts, the list it returns *)
(* is strictly ascending (so free of duplicates) and holds exactly the     *)
(* integers the comma-separated integers and ranges A..B list; a range     *)
(* with A > B lists none.                                                  *)
(***************************************************************************)
C17_ParseGivesSortedUnion ==
  Accepted =>
    /\ Ascending(result[1].stores)
    /\ Elements(result[1].stores) =
         IF args[1] = << >> THEN {}
         ELSE UNION {Listed(s) : s \in Elements(SplitComma(args[1]))}
    /\ args[1] = <<"5", ".", ".", "3">> => result[1].stores = << >>

\* "1,3..5" has been parsed to [1, 3, 4, 5].
C17_Witness ==
  /\ Accepted
  /\ args[1] = <<"1", ",", "3", ".", ".", "5">>
  /\ result[1].stores = <<1, 3, 4, 5>>

\* The expression has a piece between commas that is neither an integer
\* nor a well-formed range.
HasBadToken(s) ==
  s # << >> /\ \E token \in Elements(SplitComma(s)) :
                 ~IsInt(token) /\ ~IsRange(token)

(***************************************************************************)
(* C18.  For every expression with a piece that is neither an integer nor  *)
(* a well-formed range, _ParseVssStores raises BadConfigOption and returns *)
(* no list.                                                                *)
(***************************************************************************)
C18_BadTokenIsBadConfigOption ==
  (Parsed /\ HasBadToken(args[1])) =>
    /\ result[1].raised = "BadConfigOption"
    /\ result[1].stores = << >>

(***************************************************************************)
(* C19.  A list _ParseVssStores returned, written as a comma-separated     *)
(* expression and parsed again, gives the same list.                       *)
(***************************************************************************)
C19_ParseRenderRoundTrip ==
  Len(result) = 2 => result[2] = Returns(result[1].stores)

\* The list [1, 3, 4, 5] has been written as "1,3,4,5" and parsed again.
C19_Witness ==
  /\ Len(result) = 2
  /\ result[1].stores = <<1, 3, 4, 5>>
  /\ args[2] = <<"1", ",", "3", ",", "4", ",", "5">>
  /\ result[2].stores = <<1, 3, 4, 5>>

(***************************************************************************)
(* ScanSource and the selection of the VSS stores                          *)
(* (StorageMediaFrontend.ScanSource, _GetVolumeVssStoreIdentifiers and     *)
(* _GetVssStoreIdentifiersFromUser).                                       *)
(*                                                                         *)
(* args   = <<options.vss_stores, options.no_vss, the scan finds a VSS     *)
(*            volume, the number of stores of that volume>>                *)
(* result = <<what parsing the option gave>> and then, once                *)
(*          self._vss_stores is assigned, <<..., the value assigned>>;     *)
(*          with a value typed at the prompt goes the BadConfigOption      *)
(*          that line 472 caught, if any.                                  *)
(* An empty string and an empty list are both the empty sequence.          *)
(***************************************************************************)
MaxStores == 3

\* The expressions of the option and of the prompt are shorter than the
\* ones _ParseVssStores is explored with on its own.
MaxSelectionLen == (MaxExpressionLen + 2) \div 2

ScanAlphabet == VssAlphabet \ {"5"}

ScanExpressions ==
  {s \in UNION {[1 .. n -> ScanAlphabet] : n \in 0 .. MaxSelectionLen} :
     NoLongNumber(s)}

\* What the user can type at the prompt: an expression, possibly with
\* blanks around it.
PromptInputs ==
  ScanExpressions \cup {<<" ">>, <<" ", "1", " ">>, <<"1", ",", "3", " ">>}

\* The identifiers of a VSS volume system with n stores: vss1 .. vssn.
VolumeIdentifiers(n) ==
  [i \in 1 .. n |-> <<"v", "s", "s">> \o NaturalToString(i)]

\* A prefix of two characters: volume.identifier[2:]
WithoutPrefixShort(identifier) == SubSeq(identifier, 3, Len(identifier))

\* volume.identifier[3:]
WithoutPrefix(identifier) == SubSeq(identifier, 4, Len(identifier))

\* Lines 411-422: the numbers of the identifiers, the ones that are not a
\* number left out.
NormalizedVolumeIdentifiers(volume_identifiers) ==
  LET numbered ==
        SelectSeq(volume_identifiers, LAMBDA v : IsInt(WithoutPrefix(v)))
  IN  [i \in 1 .. Len(numbered) |-> ToInt(WithoutPrefix(numbered[i]))]

\* Accepting any selection, whatever the volume holds.
AnySelection(stores, normalized_volume_identifiers) == TRUE

\* not set(stores).difference(normalized_volume_identifiers)
NoDifference(stores, normalized_volume_identifiers) ==
  Elements(stores) \ Elements(normalized_volume_identifiers) = {}

\* selected_vss_stores.strip()
Strip(s) ==
  LET inked == {i \in 1 .. Len(s) : s[i] # " "}
  IN  IF inked = {} THEN << >>
      ELSE SubSeq(s, CHOOSE i \in inked : \A j \in inked : i <= j,
                     CHOOSE i \in inked : \A j \in inked : j <= i)

ScanInit ==
  /\ pc = "scan_source"
  /\ single_process_mode = FALSE
  /\ debug_mode = FALSE
  /\ run_foreman = FALSE
  /\ source_type = "image"
  /\ Constructed
  /\ args \in ScanExpressions \X BOOLEAN \X BOOLEAN \X (0 .. MaxStores)
  /\ result = << >>

\* Lines 694-698: the option is parsed when VSS processing is asked for
\* and the option is not empty.
ScanSourceOptions ==
  /\ pc = "scan_source"
  /\ LET vss_stores ==
           IF ~args[2] /\ args[1] # << >> THEN ParseVssStores(args[1])
           ELSE Returns(<< >>)
     IN  /\ result' = <<vss_stores>>
         /\ pc' = IF vss_stores.raised = "none" THEN "scan" ELSE "scan_raised"
  /\ UNCHANGED <<args, optionVars, abortVars, foremanVars, proxyVars,
                 prepVars, collector, childVars, workerVars, queueVars>>

\* Lines 712-762 and 375-393: without a VSS volume, with no_vss or with a
\* volume without stores nothing is assigned; a non-empty list of the option
\* is taken when the volume has all its stores (424-427); otherwise the
\* user is asked.
ScanVolume ==
  /\ pc = "scan"
  /\ LET volume_identifiers == VolumeIdentifiers(args[4])
         vss_stores == result[1].stores
     IN  IF ~args[3] \/ args[2] \/ volume_identifiers = << >>
         THEN pc' = "scanned" /\ UNCHANGED result
         ELSE IF /\ vss_stores # << >>
                 /\ NoDifference(vss_stores,
                      NormalizedVolumeIdentifiers(volume_identifiers))
         THEN pc' = "scanned" /\ result' = Append(result, Returns(vss_stores))
         ELSE pc' = "prompt" /\ UNCHANGED result
  /\ UNCHANGED <<args, optionVars, abortVars, foremanVars, proxyVars,
                 prepVars, collector, childVars, workerVars, queueVars>>

\* Lines 464-484, one turn of the loop: an empty answer is returned as it
\* is; an answer that raises BadConfigOption counts as the empty list (the
\* record keeps the exception caught next to the list); the
\* ValueError of line 507 is caught by nobody; a list the volume does not
\* have in full is asked for again.
PromptRead ==
  /\ pc = "prompt"
  /\ \E input \in PromptInputs :
       LET selected_vss_stores == Strip(input)
           parsed == ParseVssStores(selected_vss_stores)
           stores == IF parsed.raised = "BadConfigOption" THEN << >>
                     ELSE parsed.stores
       IN  IF selected_vss_stores = << >>
           THEN /\ pc' = "scanned"
                /\ result' = Append(result, Returns(selected_vss_stores))
           ELSE IF parsed.raised = "ValueError"
           THEN pc' = "scan_raised" /\ UNCHANGED result
           ELSE IF NoDifference(stores,
                     NormalizedVolumeIdentifiers(VolumeIdentifiers(args[4])))
           THEN /\ pc' = "scanned"
                /\ result' = Append(result, [raised |-> parsed.raised,
                                              stores |-> stores])
           ELSE pc' = "prompt" /\ UNCHANGED result
  /\ UNCHANGED <<args, optionVars, abortVars, foremanVars, proxyVars,
                 prepVars, collector, childVars, workerVars, queueVars>>

\* Lines 390-391: Ctrl-C at the prompt ends the scan with
\* SourceScannerError.
PromptInterrupt ==
  /\ pc = "prompt"
  /\ pc' = "scan_raised"
  /\ UNCHANGED <<args, result, optionVars, abortVars, foremanVars, proxyVars,
                 prepVars, collector, childVars, workerVars, queueVars>>

ScanNext ==
  ScanSourceOptions \/ ScanVolume \/ PromptRead \/ PromptInterrupt

ScanSpec == ScanInit /\ [][ScanNext]_vars

\* ScanSource has returned and has assigned self._vss_stores.
VssStoresSet == pc = "scanned" /\ Len(result) = 2

(***************************************************************************)
(* C20.  When ScanSource has returned and has assigned _vss_stores, the    *)
(* value is strictly ascending (so free of duplicates), its elements are   *)
(* positive and each is the number of a store of the volume, whether it    *)
(* was taken from the vss_stores option or typed at the prompt.            *)
(***************************************************************************)
C20_VssStoresAreStoresOfVolume ==
  VssStoresSet =>
    /\ Ascending(result[2].stores)
    /\ \A store_number \in Elements(result[2].stores) :
         /\ store_number > 0
         /\ store_number \in
              Elements(NormalizedVolumeIdentifiers(VolumeIdentifiers(args[4])))

\* The option asked for store -1, the volume has three stores, and the
\* stores 1 to 3 were typed at the prompt.
C20_Witness ==
  /\ VssStoresSet
  /\ args[1] = <<"-", "1">>
  /\ args[4] = 3
  /\ result[2].stores = <<1, 2, 3>>

\* The stores a volume of n stores has.
StoresOfVolume == 1 .. args[4]

\* The scan has found a VSS volume with stores and VSS processing is on.
SelectsVssStores == args[3] /\ ~args[2] /\ args[4] > 0

(***************************************************************************)
(* C21.  When the VSS volume has exactly one store, ScanSource never waits *)
(* for an answer of the user.  (The same for a partition table with one    *)
(* partition is part of C24.)                                              *)
(***************************************************************************)
C21_SoleStoreNeverPrompts ==
  args[4] = 1 => pc # "prompt"

(***************************************************************************)
(* C23.  With more than one store and no vss_stores option, the value the  *)
(* prompt returns was typed as a well-formed expression, and the volume    *)
(* has every store of it: an answer that is not a selection expression is  *)
(* asked for again, never taken.                                           *)
(***************************************************************************)
C23_MalformedAnswerNeverAccepted ==
  (VssStoresSet /\ args[1] = << >> /\ args[4] > 1) =>
    /\ result[2].raised = "none"
    /\ Elements(result[2].stores) \subseteq StoresOfVolume

(***************************************************************************)
(* C25.  When _GetVssStoreIdentifiersFromUser is entered, the list parsed  *)
(* from the vss_stores option is assigned at once, whole and without a     *)
(* prompt, exactly when it is not empty and the volume has every store of  *)
(* it; in every other case nothing of it is assigned and the user is       *)
(* asked.                                                                  *)
(***************************************************************************)
C25_HintUsedOnlyWhenAllStoresExist ==
  [][(pc = "scan" /\ SelectsVssStores) =>
       IF /\ result[1].stores # << >>
          /\ Elements(result[1].stores) \subseteq StoresOfVolume
       THEN pc' = "scanned" /\ result' = Append(result, result[1])
       ELSE pc' = "prompt" /\ result' = result]_vars

\* The option "1,3" was dropped for a volume of two stores, store 1
\* included, and the user is asked.
C25_Witness ==
  /\ args[1] = <<"1", ",", "3">>
  /\ args[4] = 2
  /\ pc = "prompt"
  /\ result = <<Returns(<<1, 3>>)>>

(***************************************************************************)
(* The choice of the partition                                             *)
(* (StorageMediaFrontend._GetVolumeTSKPartition and                        *)
(* _GetPartionIdentifierFromUser).                                         *)
(*                                                                         *)
(* args   = <<partition_number, partition_offset, the offset of the first  *)
(*            extent of each volume of the partition table in the order    *)
(*            of the volume system, the last answer read at the prompt>>;  *)
(*          None is the empty sequence and a number n the sequence <<n>>.  *)
(* result = <<>> and, once the function has ended, the exception raised    *)
(*          and the location of the scan node returned (empty: None).      *)
(***************************************************************************)
MaxPartitions == 3

Hints == {<< >>} \cup {<<n>> : n \in -1 .. MaxPartitions + 1}

\* Partition tables of up to MaxPartitions volumes, no two at one offset.
PartitionTables ==
  {v \in UNION {[1 .. n -> 1 .. MaxPartitions] : n \in 0 .. MaxPartitions} :
     \A i, j \in DOMAIN v : i # j => v[i] # v[j]}

\* The identifiers of a partition table of n volumes: p1 .. pn.
PartitionIdentifiers(n) == [i \in 1 .. n |-> <<"p">> \o NaturalToString(i)]

\* What the user can type when asked for a partition.
PartitionInputs ==
  {<< >>, <<"p", "1">>, <<"p", "2">>, <<" ", "p", "2", " ">>, <<"2">>,
   <<"p">>, <<"p", "1", "2">>, <<"/", "p", "1">>} \cup
  {<<"p">> \o NaturalToString(n) : n \in 0 .. MaxPartitions + 1}

\* An index that counts from one.
GetVolumeByNumber(volumes, volume_index) ==
  IF volume_index \in DOMAIN volumes THEN volume_index ELSE 0

\* volume_system.GetVolumeByIndex(volume_index), zero-based: the place of
\* the volume in the table, 0 for None.
GetVolumeByIndex(volumes, volume_index) ==
  IF volume_index \in 0 .. Len(volumes) - 1 THEN volume_index + 1 ELSE 0

\* Taking whatever was typed.
AnyIdentifier(selected_volume_identifier, volume_identifiers) == TRUE

\* selected_volume_identifier in volume_identifiers
InIdentifiers(selected_volume_identifier, volume_identifiers) ==
  selected_volume_identifier \in Elements(volume_identifiers)

\* u'/{0:s}'.format(identifier)
VolumeLocation(identifier) == <<"/">> \o identifier

ReturnsNode(location) == [raised |-> "none", location |-> location]

PartitionInit ==
  /\ pc = "get_partition"
  /\ single_process_mode = FALSE
  /\ debug_mode = FALSE
  /\ run_foreman = FALSE
  /\ source_type = "image"
  /\ Constructed
  /\ args \in Hints \X Hints \X PartitionTables \X {<< >>}
  /\ result = << >>

\* Lines 297-360 up to the first answer wanted from the user.
GetVolumeTSKPartition ==
  /\ pc = "get_partition"
  /\ LET partition_number == args[1]
         partition_offset == args[2]
         volumes == args[3]
         volume_identifiers == PartitionIdentifiers(Len(volumes))
         by_number ==
           IF partition_number # << >> /\ partition_number[1] > 0
           THEN GetVolumeByIndex(volumes, partition_number[1] - 1) ELSE 0
         at_offset ==
           IF partition_offset = << >> THEN {}
           ELSE {i \in DOMAIN volumes : volumes[i] = partition_offset[1]}
     IN  IF volume_identifiers = << >>
         THEN pc' = "partition_returned" /\ result' = <<ReturnsNode(<< >>)>>
         ELSE IF by_number # 0
         THEN /\ pc' = "partition_returned"
              /\ result' =
                   <<ReturnsNode(VolumeLocation(volume_identifiers[by_number]))>>
         ELSE IF at_offset # {}
         THEN /\ pc' = "partition_returned"
              /\ result' =
                   <<ReturnsNode(VolumeLocation(volume_identifiers[Min(at_offset)]))>>
         ELSE IF Len(volume_identifiers) = 1
         THEN /\ pc' = "partition_returned"
              /\ result' = <<ReturnsNode(VolumeLocation(volume_identifiers[1]))>>
         ELSE pc' = "partition_prompt" /\ UNCHANGED result
  /\ UNCHANGED <<args, optionVars, abortVars, foremanVars, proxyVars,
                 prepVars, collector, childVars, workerVars, queueVars>>

\* Lines 249-266 and 346-360, one turn of the loop: the answer read is
\* stripped and taken when it is one of the identifiers.
PartitionPromptRead ==
  /\ pc = "partition_prompt"
  /\ \E input \in PartitionInputs :
       LET selected_volume_identifier == Strip(input)
       IN  /\ args' = [args EXCEPT ![4] = input]
           /\ IF InIdentifiers(selected_volume_identifier,
                                 PartitionIdentifiers(Len(args[3])))
              THEN /\ pc' = "partition_returned"
                   /\ result' = <<ReturnsNode(
                                    VolumeLocation(selected_volume_identifier))>>
              ELSE pc' = "partition_prompt" /\ UNCHANGED result
  /\ UNCHANGED <<optionVars, abortVars, foremanVars, proxyVars, prepVars,
                 collector, childVars, workerVars, queueVars>>

\* Lines 343-344: Ctrl-C at the prompt.
PartitionPromptInterrupt ==
  /\ pc = "partition_prompt"
  /\ pc' = "partition_raised"
  /\ result' = <<[raised |-> "SourceScannerError", location |-> << >>]>>
  /\ UNCHANGED <<args, optionVars, abortVars, foremanVars, proxyVars,
                 prepVars, collector, childVars, workerVars, queueVars>>

PartitionNext ==
  GetVolumeTSKPartition \/ PartitionPromptRead \/ PartitionPromptInterrupt

PartitionSpec == PartitionInit /\ [][PartitionNext]_vars

\* The scan node of the volume at place i of the partition table.
NodeOfVolume(i) == ReturnsNode(<<"/", "p">> \o NaturalToString(i))

(***************************************************************************)
(* C22.  Every turn of the partition prompt ends in one of three ways: an  *)
(* interrupt ends the resolution with SourceScannerError; an answer that,  *)
(* stripped, is one of the identifiers of the table returns the scan node  *)
(* of that volume; any other answer leaves the prompt asking again with    *)
(* nothing returned.                                                       *)
(***************************************************************************)
C22_PartitionPromptLoops ==
  [][pc = "partition_prompt" =>
       LET answer == Strip(args'[4])
           listed == {<<"p">> \o NaturalToString(i) : i \in 1 .. Len(args[3])}
       IN  \/ /\ pc' = "partition_raised"
              /\ result'[1].raised = "SourceScannerError"
              /\ args' = args
           \/ /\ answer \in listed
              /\ pc' = "partition_returned"
              /\ result' = <<ReturnsNode(<<"/">> \o answer)>>
           \/ /\ answer \notin listed
              /\ pc' = "partition_prompt"
              /\ result' = << >>]_vars

\* " p2 " was typed and the second of three partitions returned.
C22_Witness ==
  /\ pc = "partition_returned"
  /\ Len(args[3]) = 3
  /\ args[4] = <<" ", "p", "2", " ">>
  /\ result = <<NodeOfVolume(2)>>

\* The rules of _GetVolumeTSKPartition in their order: the partition
\* number, the offset, the sole partition, the prompt.
PartitionPriority ==
  LET partition_number == args[1]
      partition_offset == args[2]
      volumes == args[3]
  IN  IF partition_number # << >> /\ partition_number[1] \in DOMAIN volumes
      THEN pc' = "partition_returned"
           /\ result' = <<NodeOfVolume(partition_number[1])>>
      ELSE IF /\ partition_offset # << >>
              /\ \E i \in DOMAIN volumes : volumes[i] = partition_offset[1]
      THEN pc' = "partition_returned"
           /\ \E i \in DOMAIN volumes :
                /\ volumes[i] = partition_offset[1]
                /\ result' = <<NodeOfVolume(i)>>
      ELSE IF Len(volumes) = 1
      THEN pc' = "partition_returned" /\ result' = <<NodeOfVolume(1)>>
      ELSE pc' = "partition_prompt" /\ result' = << >>

(***************************************************************************)
(* C24.  For a partition table with at least one volume,                   *)
(* _GetVolumeTSKPartition returns the scan node of the volume the          *)
(* partition number names (number p, place p - 1 counting from zero);      *)
(* failing that, of the volume whose first extent starts at the partition  *)
(* offset; failing that, of the sole volume; failing that, it asks the     *)
(* user.  For a table without volumes it returns None and asks nobody.     *)
(***************************************************************************)
C24_PartitionPriority ==
  [][pc = "get_partition" =>
       IF args[3] = << >>
       THEN pc' = "partition_returned" /\ result' = <<ReturnsNode(<< >>)>>
       ELSE PartitionPriority]_vars

\* Partition number 2 and the offset of the first partition were given:
\* the second partition was returned.
C24_Witness ==
  /\ pc = "partition_returned"
  /\ Len(args[3]) = 3
  /\ args[1] = <<2>>
  /\ args[2] = <<args[3][1]>>
  /\ args[4] = << >>
  /\ result = <<NodeOfVolume(2)>>

\* C24 as stated, for every partition table: a scan node is returned by
\* the first rule that applies, or the user is asked.
C24_AlwaysNodeOrPrompt ==
  [][pc = "get_partition" => PartitionPriority]_vars

(***************************************************************************)
(* The resolution loop of ScanSource (lines 700-782) and ProcessSource up   *)
(* to the choice between the two modes of processing.                      *)
(*                                                                         *)
(* args   = <<the source path (a raw device path or not, existing or not), *)
(*            options.vss_stores, options.no_vss,                          *)
(*            the exception ScanSource has raised,                         *)
(*            self._partition_offset (None: the empty sequence, a number   *)
(*            n: the sequence <<n>>),                                      *)
(*            the storage file path can be written to,                     *)
(*            the exception ProcessSource has raised>>                     *)
(* result = the scan context: empty until OpenSourcePath, then the source  *)
(*          and each node that became last_scan_node, in order.            *)
(* source_type is the source type the scanner finds.  What the scanner     *)
(* finds at each step, and what the choice of the partition and of the     *)
(* VSS stores end in, is open (the two choices are the subject of          *)
(* PartitionSpec and ScanSpec).                                            *)
(***************************************************************************)
MaxScans == 3

SourcePaths == [device : BOOLEAN, exists : BOOLEAN]

\* The type indicators of a last scan node; "none" is no node at all and
\* "OS" any node that is neither a file system nor a volume system.
NodeTypes == {"none", "TSK", "BDE", "TSK_PARTITION", "VSHADOW", "OS"}

\* A scan node; start_offset is the attribute of its path specification,
\* the empty sequence when the path specification has none.
ScanNode(type_indicator, location) ==
  [type_indicator |-> type_indicator, location |-> location,
   start_offset |-> << >>]

\* The start offsets a partition is found with.
StartOffsets == {<< >>, <<0>>, <<1>>}

\* An offset of zero whatever the path specification says.
StartOffsetZero(path_spec) == 0

\* getattr(scan_node.path_spec, 'start_offset', 0)
StartOffset(path_spec) ==
  IF path_spec.start_offset = << >> THEN 0 ELSE path_spec.start_offset[1]

\* Going on whatever the path.
NoSuchSourceIgnored(path) == FALSE

\* not self._source_path.startswith('\\\\.\\') and
\* not os.path.exists(self._source_path)
NoSuchSource(path) == ~path.device /\ ~path.exists

\* No option, a list, an expression that is not a number, and a range
\* with too many '..'.
VssStoresOptions ==
  {<< >>, <<"1", ",", "3">>, <<"1", ",">>, <<"1", ".", ".", "3", ".", ".">>}

ResolveInit ==
  /\ pc = "scan_source_options"
  /\ single_process_mode = FALSE
  /\ debug_mode = FALSE
  /\ run_foreman = FALSE
  /\ source_type \in SourceTypes
  /\ Constructed
  /\ args \in SourcePaths \X VssStoresOptions \X BOOLEAN \X {"none"}
                \X {<< >>} \X BOOLEAN \X {"none"}
  /\ result = << >>

\* Lines 652-698: an exception of _ParseVssStores ends ScanSource; with
\* no_vss the option is not parsed.
ResolveOptions ==
  /\ pc = "scan_source_options"
  /\ LET exception == IF ~args[3] /\ args[2] # << >>
                       THEN ParseVssStores(args[2]).raised ELSE "none"
     IN  IF exception # "none"
         THEN pc' = "raised" /\ args' = [args EXCEPT ![4] = exception]
         ELSE pc' = "check_path" /\ UNCHANGED args
  /\ UNCHANGED <<result, optionVars, abortVars, foremanVars, proxyVars,
                 prepVars, collector, childVars, workerVars, queueVars>>

\* Lines 700-710.
ResolveOpen ==
  /\ pc = "check_path"
  /\ IF NoSuchSource(args[1])
     THEN /\ pc' = "raised"
          /\ args' = [args EXCEPT ![4] = "SourceScannerError"]
          /\ UNCHANGED result
     ELSE /\ pc' = "scan_loop"
          /\ result' = <<ScanNode("source", "")>>
          /\ UNCHANGED args
  /\ UNCHANGED <<optionVars, abortVars, foremanVars, proxyVars, prepVars,
                 collector, childVars, workerVars, queueVars>>

\* Lines 713-767, one turn of the loop: the scan and what follows from the
\* node it ends at.
ResolveScan ==
  /\ pc = "scan_loop"
  /\ Len(result) <= 2 * MaxScans
  /\ \E type \in NodeTypes,
        outcome \in {"returned", "None", "SourceScannerError", "ValueError"},
        start_offset \in StartOffsets :
       LET scanned == Append(result, ScanNode(type, ""))
           scan_node == [ScanNode(type, "/p") EXCEPT
                           !.start_offset = start_offset]
           Ends == /\ pc' = "loop_ended"
                   /\ result' = scanned
                   /\ UNCHANGED args
           Fails(exception) ==
                   /\ pc' = "raised"
                   /\ result' = scanned
                   /\ args' = [args EXCEPT ![4] = exception]
       IN  IF source_type \in {"directory", "file"}
           THEN type = "OS" /\ outcome = "returned" /\ Ends
           ELSE CASE type = "none" ->
                       outcome = "returned" /\ Fails("SourceScannerError")
                  [] type = "TSK" -> outcome = "returned" /\ Ends
                  [] type = "BDE" ->
                       outcome = "returned" /\ Fails("SourceScannerError")
                  [] type = "TSK_PARTITION" ->
                       CASE outcome = "returned" ->
                              /\ pc' = "scan_loop"
                              /\ result' = Append(scanned, scan_node)
                              /\ args' = [args EXCEPT
                                           ![5] = <<StartOffset(scan_node)>>]
                         [] outcome = "None" -> Ends
                         [] outcome = "SourceScannerError" -> Fails(outcome)
                         [] OTHER -> FALSE
                  [] type = "VSHADOW" ->
                       CASE outcome = "returned" ->
                              /\ pc' = "loop_ended"
                              /\ result' =
                                   Append(scanned, ScanNode(type, "/"))
                              /\ UNCHANGED args
                         [] outcome = "None" -> FALSE
                         [] OTHER -> ~args[3] /\ Fails(outcome)
                  [] OTHER ->
                       outcome = "returned" /\ Fails("SourceScannerError")
  /\ UNCHANGED <<optionVars, abortVars, foremanVars, proxyVars, prepVars,
                 collector, childVars, workerVars, queueVars>>

\* Lines 769-782, and lines 1635-1646 of ProcessSource when the storage
\* file path is accepted.
ResolveEnd ==
  /\ pc = "loop_ended"
  /\ args[6]
  /\ pc' = "scanned"
  /\ args' = IF /\ source_type \notin {"directory", "file"}
                /\ result[Len(result)].type_indicator = "TSK"
                /\ args[5] = << >>
             THEN [args EXCEPT ![5] = <<0>>] ELSE args
  /\ UNCHANGED <<result, optionVars, abortVars, foremanVars, proxyVars,
                 prepVars, collector, childVars, workerVars, queueVars>>

\* Lines 628-636 and 1635: every SourceScannerError of ScanSource is
\* raised again as BadConfigOption with the advice that the image format
\* is most likely not supported; any other exception goes to the caller
\* as it is.
ProcessSourceScanFailed ==
  /\ pc = "raised"
  /\ pc' = "process_source_raised"
  /\ args' = [args EXCEPT ![7] =
               IF args[4] = "SourceScannerError"
               THEN "BadConfigOption: image format not supported"
               ELSE args[4]]
  /\ UNCHANGED <<result, optionVars, abortVars, foremanVars, proxyVars,
                 prepVars, collector, childVars, workerVars, queueVars>>

\* Lines 769-782 and 1635-1646, _CheckStorageFile raising BadConfigOption.
ProcessSourceStorageFileRejected ==
  /\ pc = "loop_ended"
  /\ ~args[6]
  /\ pc' = "process_source_raised"
  /\ args' = [args EXCEPT ![7] = "BadConfigOption"]
  /\ UNCHANGED <<result, optionVars, abortVars, foremanVars, proxyVars,
                 prepVars, collector, childVars, workerVars, queueVars>>

ResolveNext ==
  \/ ResolveOptions \/ ResolveOpen \/ ResolveScan \/ ResolveEnd
  \/ ProcessSourceScanFailed \/ ProcessSourceStorageFileRejected

ResolveSpec == ResolveInit /\ [][ResolveNext]_vars

\* The node last_scan_node is.
LastScanNode == result[Len(result)]

StorageMedia == source_type \notin {"directory", "file"}

\* ScanSource has ended with an exception.
ScanSourceRaised ==
  pc \in {"raised", "process_source_raised"} /\ args[4] # "none"

C27_LoopEndsAtFileSystem ==
  (\/ pc \in {"loop_ended", "scanned"}
   \/ pc = "process_source_raised" /\ ~ScanSourceRaised) =>
    ~StorageMedia \/ LastScanNode.type_indicator = "TSK"

\* No storage, collection or worker process exists.
NoProcessStarted ==
  /\ storage_process = "none"
  /\ collection_process = "none"
  /\ worker_processes = {}

(***************************************************************************)
(* C28.  When ProcessSource ends with an exception before the processing   *)
(* starts, the exception is BadConfigOption and no storage, collection or  *)
(* worker process has been started; what ScanSource raised as              *)
(* SourceScannerError carries the advice that the image format is most     *)
(* likely not supported.                                                   *)
(***************************************************************************)
C28_FailuresAreBadConfigOption ==
  pc = "process_source_raised" =>
    /\ args[7] \in {"BadConfigOption",
                    "BadConfigOption: image format not supported"}
    /\ args[4] = "SourceScannerError" =>
         args[7] = "BadConfigOption: image format not supported"
    /\ NoProcessStarted

\* The run is in single process mode: _ProcessSourceSingleProcessMode has
\* been entered.
SingleProcess == single_process_mode /\ pc # "init"

\* The order of the phases of _StartSingleThread over one step.
PhasesInOrder ==
  /\ (pc' = "sp_run" /\ pc # "sp_run") =>
       /\ pc = "sp_collect"
       /\ collection_queue' # << >>
       /\ collection_queue'[Len(collection_queue')] = "eoi"
  /\ (pc' = "sp_signal_storage" /\ pc # "sp_signal_storage") =>
       pc = "sp_run" /\ storage_eoi' = 0
  /\ storage_eoi' # storage_eoi =>
       pc = "sp_signal_storage" /\ pc' = "sp_write" /\ storage_eoi' = 1
  /\ (pc' = "sp_write" /\ pc # "sp_write") => pc = "sp_signal_storage"
  /\ (pc' = "done" /\ pc # "done") => pc = "sp_write"

(***************************************************************************)
(* C29.  In single process mode no storage, collection or worker process   *)
(* is ever started, and, as long as the run is not interrupted, the phases *)
(* follow each other: the extraction worker runs only once Collect has     *)
(* returned, with the end of input on the collection queue; the end of     *)
(* input of the storage queue is signalled only once the worker has        *)
(* returned, and exactly then; the storage writer starts only after that   *)
(* signal.                                                                 *)
(***************************************************************************)
C29_SingleProcessPhases ==
  [][SingleProcess =>
       /\ NoProcessStarted'
       /\ Running' => PhasesInOrder]_vars

\* A run in single process mode has collected an item and has ended.
C29_Witness ==
  /\ SingleProcess
  /\ Running
  /\ pc = "done"
  /\ collection_queue = <<"item", "eoi">>
  /\ storage_eoi = 1

\* C29 as stated, for every run in single process mode, interrupted or not.
C29_PhasesInEveryRun ==
  [][SingleProcess => NoProcessStarted' /\ PhasesInOrder]_vars

\* Extraction has begun: a process exists, or Collect has been called in
\* single process mode.
ExtractionBegun ==
  \/ ~NoProcessStarted
  \/ SingleProcess /\ pc \in {"sp_collect", "sp_run", "sp_signal_storage",
                              "sp_write", "done"}

SelectedPartitions == {i \in DOMAIN result : result[i].location = "/p"}

(***************************************************************************)
(* C31.  When ScanSource has returned: for a storage media source, if a    *)
(* partition was selected the partition offset is the start offset of the  *)
(* path specification of the partition selected last, 0 when it has none;  *)
(* if no partition table was met and the last scan node is a file system   *)
(* the partition offset is 0; for a directory or a file it is unset.       *)
(***************************************************************************)
C31_PartitionOffsetRecorded ==
  pc = "scanned" =>
    IF ~StorageMedia THEN args[5] = << >>
    ELSE IF SelectedPartitions # {}
    THEN LET last == CHOOSE i \in SelectedPartitions :
                       \A j \in SelectedPartitions : j <= i
         IN  args[5] = IF result[last].start_offset = << >> THEN <<0>>
                       ELSE result[last].start_offset
    ELSE (/\ \A i \in DOMAIN result : result[i].type_indicator # "TSK_PARTITION"
          /\ LastScanNode.type_indicator = "TSK") => args[5] = <<0>>

\* A partition at offset 1 was selected and the scan has ended at the file
\* system in it.
C31_Witness ==
  /\ pc = "scanned"
  /\ StorageMedia
  /\ Len(result) = 4
  /\ result[3].location = "/p"
  /\ result[3].start_offset = <<1>>
  /\ LastScanNode.type_indicator = "TSK"
  /\ args[5] = <<1>>

(***************************************************************************)
(* The SQLite parser and its plugins: the parser chain of the events that  *)
(* the plugins produce for one database file.  args is <<the plugins that  *)
(* are still to run on the database, the parser chain of the mediator, the *)
(* number of plugins that were run>>, result the parser chains of the      *)
(* events produced so far.                                                 *)
(***************************************************************************)
MaxEvents == 3

\* The plugins registered with the SQLite parser, in registration order.
RegisteredPlugins == <<"skype", "chrome_history", "firefox_history">>

\* ParserMediator.GetParserChain: the names of the chain joined with '/'.
GetParserChain(chain) ==
  [i \in 1 .. (IF chain = << >> THEN 0 ELSE 2 * Len(chain) - 1) |->
     IF i % 2 = 1 THEN chain[(i + 1) \div 2] ELSE "/"]

\* The number of '/' separators in a parser chain.
CountSeparators(parser_chain) ==
  Cardinality({i \in DOMAIN parser_chain : parser_chain[i] = "/"})

\* ParserMediator.AppendToParserChain.
AppendToParserChain(chain, plugin) == Append(chain, plugin)

PopFromParserChainKept(chain) == chain

\* ParserMediator.PopFromParserChain.
PopFromParserChain(chain) == SubSeq(chain, 1, Len(chain) - 1)

\* The plugins whose required tables the database has: any of the
\* registered plugins, in registration order.
MatchingPlugins ==
  {SelectSeq(RegisteredPlugins, LAMBDA p : p \in s) :
     s \in SUBSET {RegisteredPlugins[i] : i \in DOMAIN RegisteredPlugins}}

ChainInit ==
  /\ pc = "parse_file_entry"
  /\ single_process_mode = FALSE
  /\ debug_mode = FALSE
  /\ run_foreman = FALSE
  /\ source_type = "file"
  /\ Constructed
  /\ args \in MatchingPlugins \X {<<"sqlite">>} \X {0}
  /\ result = << >>

\* SQLiteParser.ParseFileEntry calls the next matching plugin, which puts
\* its name on the parser chain.
UpdateChainAndProcess ==
  /\ pc = "parse_file_entry" /\ args[1] # << >>
  /\ pc' = "plugin_process"
  /\ args' = <<args[1], AppendToParserChain(args[2], Head(args[1])),
               args[3] + 1>>
  /\ UNCHANGED <<result, optionVars, abortVars, foremanVars, proxyVars,
                 prepVars, collector, childVars, workerVars, queueVars>>

\* A row handler of the plugin produces an event.
PluginProduceEvent ==
  /\ pc = "plugin_process" /\ Len(result) < MaxEvents
  /\ result' = Append(result, GetParserChain(args[2]))
  /\ UNCHANGED <<pc, args, optionVars, abortVars, foremanVars, proxyVars,
                 prepVars, collector, childVars, workerVars, queueVars>>

\* The plugin returns or raises: its name is taken off the parser chain.
PluginReturn ==
  /\ pc = "plugin_process"
  /\ pc' = "parse_file_entry"
  /\ args' = <<Tail(args[1]), PopFromParserChain(args[2]), args[3]>>
  /\ UNCHANGED <<result, optionVars, abortVars, foremanVars, proxyVars,
                 prepVars, collector, childVars, workerVars, queueVars>>

ChainNext == UpdateChainAndProcess \/ PluginProduceEvent \/ PluginReturn

ChainSpec == ChainInit /\ [][ChainNext]_vars

(***************************************************************************)
(* C32.  Every event the SQLite parser produces for a database file has a  *)
(* parser chain with exactly one '/': the chain of the mediator is the     *)
(* parser name between plugins and the parser name and one plugin name     *)
(* inside a plugin, and a plugin that returns leaves the chain as it was   *)
(* before the plugin was called.                                           *)
(***************************************************************************)
C32_OneSeparatorPerEvent ==
  /\ \A i \in DOMAIN result : CountSeparators(result[i]) = 1
  /\ pc = "parse_file_entry" => args[2] = <<"sqlite">>
  /\ pc = "plugin_process" => args[2] = <<"sqlite", Head(args[1])>>

\* The second plugin of a database has produced an event after the first
\* one has produced one and returned.
C32_Witness ==
  /\ pc = "plugin_process"
  /\ args[3] = 2
  /\ Len(result) = 2
  /\ result[1] = <<"sqlite", "/", "skype">>
  /\ result[2] = <<"sqlite", "/", "chrome_history">>

(***************************************************************************)
(* SQLiteParser.GetPluginNames with a parser filter string.  A filter      *)
(* string is a sequence of names, ',', ' ' and '-'.  args is <<the filter  *)
(* string>>, result <<the set of plugin names returned>>.                  *)
(***************************************************************************)
MaxFilterElements == 3

\* The names a filter string can hold: the parser and its plugins.
FilterNames == {"sqlite"} \cup Elements(RegisteredPlugins)

\* The filter string of a list of elements <<excluded, name>>, written as
\* in 'sqlite, -skype'.
RECURSIVE FilterString(_)
FilterString(elements) ==
  IF elements = << >> THEN << >>
  ELSE LET element == (IF elements[1][1] THEN <<"-">> ELSE << >>)
                        \o <<elements[1][2]>>
       IN  IF Len(elements) = 1 THEN element
           ELSE element \o <<",", " ">> \o FilterString(Tail(elements))

\* The filter strings tried: up to MaxFilterElements elements, one of them
\* at least an inclusion.
FilterStrings ==
  {FilterString(elements) :
     elements \in {e \in UNION {[1 .. n -> BOOLEAN \X FilterNames] :
                                  n \in 1 .. MaxFilterElements} :
                     \E i \in DOMAIN e : ~e[i][1]}}

\* The plugins a name of a filter string stands for: the parser name stands
\* for all of its plugins.
PluginsOfName(name) ==
  IF name = "sqlite" THEN Elements(RegisteredPlugins)
  ELSE {name} \cap Elements(RegisteredPlugins)

\* The elements of a filter string that do not start with '-'.
FilterIncludes(parser_filter_string) ==
  UNION {PluginsOfName(piece[1]) :
           piece \in {Strip(p) : p \in Elements(SplitComma(parser_filter_string))}
                       \cap {<<name>> : name \in FilterNames}}

FilterExcludesNone(parser_filter_string) == {}

\* The elements of a filter string that start with '-'.
FilterExcludes(parser_filter_string) ==
  UNION {PluginsOfName(piece[2]) :
           piece \in {Strip(p) : p \in Elements(SplitComma(parser_filter_string))}
                       \cap {<<"-", name>> : name \in FilterNames}}

\* SQLiteParser.GetPluginNames(parser_filter_string=...).
GetPluginNames(parser_filter_string) ==
  {name \in Elements(RegisteredPlugins) :
     /\ name \in FilterIncludes(parser_filter_string)
     /\ name \notin FilterExcludes(parser_filter_string)}

FilterInit ==
  /\ pc = "get_plugin_names"
  /\ single_process_mode = FALSE
  /\ debug_mode = FALSE
  /\ run_foreman = FALSE
  /\ source_type = "file"
  /\ Constructed
  /\ args \in {<<s>> : s \in FilterStrings}
  /\ result = << >>

ApplyGetPluginNames ==
  /\ pc = "get_plugin_names" /\ result = << >>
  /\ result' = <<GetPluginNames(args[1])>>
  /\ UNCHANGED <<pc, args, optionVars, abortVars, foremanVars, proxyVars,
                 prepVars, collector, childVars, workerVars, queueVars>>

FilterSpec == FilterInit /\ [][ApplyGetPluginNames]_vars

\* The names that a filter string holds with or without a '-' before them
\* (excluded = TRUE or FALSE).
NamedInFilter(s, excluded) ==
  {name \in FilterNames :
     \E i \in DOMAIN s :
        /\ s[i] = name
        /\ excluded <=> (i > 1 /\ s[i - 1] = "-")}

MaxRows == 3

\* The results of a query: the rows in query order, no row twice.
QueryResults ==
  {rows \in UNION {[1 .. n -> 1 .. MaxRows] : n \in 0 .. MaxRows} :
     \A i, j \in DOMAIN rows : rows[i] = rows[j] => i = j}

InRowCacheNever(row, handled) == FALSE

\* The row cache of the query has the row: the row handler was called for
\* it before.
InRowCache(row, handled) == \E i \in DOMAIN handled : handled[i][1] = row

WalInit ==
  /\ pc = "parse_query"
  /\ single_process_mode = FALSE
  /\ debug_mode = FALSE
  /\ run_foreman = FALSE
  /\ source_type = "file"
  /\ Constructed
  /\ args \in (QueryResults \X {TRUE} \X QueryResults \X {1})
                \cup (QueryResults \X {FALSE} \X {<< >>} \X {1})
  /\ result = << >>

\* The row handler is called for the next row of the database read without
\* the WAL.
ParseQueryRow ==
  /\ pc = "parse_query" /\ args[4] <= Len(args[1])
  /\ result' = IF InRowCache(args[1][args[4]], result) THEN result
               ELSE Append(result, <<args[1][args[4]], FALSE>>)
  /\ args' = [args EXCEPT ![4] = @ + 1]
  /\ UNCHANGED <<pc, optionVars, abortVars, foremanVars, proxyVars,
                 prepVars, collector, childVars, workerVars, queueVars>>

\* The rows of the database are done: the WAL is next if there is one.
ParseQueryEnd ==
  /\ pc = "parse_query" /\ args[4] > Len(args[1])
  /\ pc' = IF args[2] THEN "parse_query_wal" ELSE "processed"
  /\ args' = [args EXCEPT ![4] = 1]
  /\ UNCHANGED <<result, optionVars, abortVars, foremanVars, proxyVars,
                 prepVars, collector, childVars, workerVars, queueVars>>

\* The next row of the database with the WAL applied: the row handler is
\* called, with the file entry of the WAL file, unless the row cache has
\* the row.
ParseWalRow ==
  /\ pc = "parse_query_wal" /\ args[4] <= Len(args[3])
  /\ result' = IF InRowCache(args[3][args[4]], result) THEN result
               ELSE Append(result, <<args[3][args[4]], TRUE>>)
  /\ args' = [args EXCEPT ![4] = @ + 1]
  /\ UNCHANGED <<pc, optionVars, abortVars, foremanVars, proxyVars,
                 prepVars, collector, childVars, workerVars, queueVars>>

ParseWalEnd ==
  /\ pc = "parse_query_wal" /\ args[4] > Len(args[3])
  /\ pc' = "processed"
  /\ UNCHANGED <<args, result, optionVars, abortVars, foremanVars, proxyVars,
                 prepVars, collector, childVars, workerVars, queueVars>>

WalNext == ParseQueryRow \/ ParseQueryEnd \/ ParseWalRow \/ ParseWalEnd

WalSpec == WalInit /\ [][WalNext]_vars

\* The calls of the row handler that the two views of a database ask for.
ExpectedCalls ==
  [i \in DOMAIN args[1] |-> <<args[1][i], FALSE>>]
    \o [i \in DOMAIN SelectSeq(args[3], LAMBDA r : r \notin Elements(args[1]))
          |-> <<SelectSeq(args[3], LAMBDA r : r \notin Elements(args[1]))[i],
                TRUE>>]

RpcHandlerStep == end_of_processing' # end_of_processing /\ pc' = pc

\* The main thread is at a call of the Foreman: MonitorWorker (line 1209)
\* or CheckStatus (line 1217).
AtForemanCall ==
  /\ Running /\ worker_foreman = "object"
  /\ pc \in {"mp_worker_start", "collect_poll"}

C36_StorageSignalledAtMostOnce == storage_eoi <= 1

C38_PreprocessReturnsObject == pre_obj \in {"unset", "object"}

(***************************************************************************)
(* C39.  In a multi-process run with the Foreman disabled                  *)
(* (SetRunForeman(False)) no RPC proxy is opened, no proxy thread is       *)
(* started and no Foreman call is made; every pass of the drain-workers    *)
(* loop takes the workers of the map in ascending order of their names,    *)
(* waits for each one that is alive with join() without a timeout and      *)
(* deletes each one, so the map is empty after a single pass.              *)
(***************************************************************************)
C39_DrainWithoutForeman ==
  /\ [](~run_foreman =>
          /\ worker_foreman \in {"unset", "none"}
          /\ engine_proxy = "none" /\ proxy_thread = "unset"
          /\ end_of_processing = 0
          /\ \A w \in Workers : foreman_state[w] = "unmonitored"
          /\ pc # "drain_check"
          /\ pc \in {"drain_item", "drain_join"} =>
               /\ worker_processes = Elements(drain_list)
               /\ \A i, j \in DOMAIN drain_list :
                    i < j => drain_list[i] < drain_list[j])
  /\ [][~run_foreman =>
          /\ (pc = "drain_item" /\ pc' = "drain_join") =>
               IsAlive(process_state[DrainWorker])
          /\ (pc = "drain_item" /\ drain_list # << >>
                /\ IsAlive(process_state[DrainWorker])) =>
               pc' \in {"drain_join", "drain_item"} /\ drain_list' = drain_list
          /\ (pc = "drain_join" /\ pc' # pc) =>
               /\ ~IsAlive(process_state[DrainWorker])
               /\ worker_processes' = worker_processes \ {DrainWorker}
          /\ (pc = "drain_item" /\ pc' = "drain_test") =>
               worker_processes = {}]_vars

\* A run without a Foreman has drained its two workers, the second one
\* waited for, and is about to signal the storage queue.
C39_Witness ==
  /\ Running /\ ~run_foreman /\ pc = "mp_signal_storage"
  /\ number_of_worker_processes = 2
  /\ worker_processes = {} /\ drain_list = << >>
  /\ \A w \in 0 .. 1 : process_state[w] = "exit0"
  /\ engine_proxy = "none" /\ proxy_thread = "unset"

(***************************************************************************)
(* ScanSource, lines 662-692: the partition offset hint of the options.    *)
(* An option is <<"absent">> (no such attribute), <<"none">> (None),       *)
(* <<"str", s>> (a string) or <<"int", n>> (a number).  args is            *)
(* <<options.image_offset_bytes, options.image_offset,                     *)
(* options.bytes_per_sector>>, result <<[raised, partition_offset]>> with  *)
(* << >> for the partition offset None.                                    *)
(***************************************************************************)
MaxOffset == 2

DefaultBytesPerSector == 512

\* The strings tried as option values: '', '0', '2', '02', '-2', 'x', '2x'.
OffsetStrings ==
  {<< >>, <<"0">>, <<"2">>, <<"0", "2">>, <<"-", "2">>, <<"x">>,
   <<"2", "x">>}

OffsetOptions ==
  {<<"absent">>, <<"none">>}
    \cup {<<"str", s>> : s \in OffsetStrings}
    \cup {<<"int", n>> : n \in -1 .. MaxOffset}

\* getattr(options, name, default).
GetAttr(option, default) == IF option[1] = "absent" THEN default ELSE option

\* The try blocks of lines 665-670, 677-682 and 684-690: a string becomes
\* the number int(value, 10), or the fall-back when that raises ValueError;
\* any other value is left as it is.
IntOrFallBack(value, fall_back) ==
  IF value[1] = "str"
    THEN IF IsInt(value[2]) THEN <<"int", ToInt(value[2])>> ELSE fall_back
    ELSE value

\* Line 691, if image_offset: None and 0 are false.
Truthy(value) == value[1] = "int" /\ value[2] # 0

\* Lines 662-692.
PartitionOffsetHint(image_offset_bytes, image_offset, bytes_per_sector) ==
  LET from_bytes == IntOrFallBack(GetAttr(image_offset_bytes, <<"none">>),
                                  <<"none">>)
      offset == IntOrFallBack(image_offset, <<"none">>)
      sector == IntOrFallBack(
                  GetAttr(bytes_per_sector, <<"int", DefaultBytesPerSector>>),
                  <<"int", DefaultBytesPerSector>>)
  IN  IF from_bytes[1] # "none"
        THEN [raised |-> "none", partition_offset |-> <<from_bytes[2]>>]
      ELSE IF image_offset[1] = "absent" \/ ~Truthy(offset)
        THEN [raised |-> "none", partition_offset |-> << >>]
      ELSE IF sector[1] = "none"
        \* line 692: int * None
        THEN [raised |-> "TypeError", partition_offset |-> << >>]
      ELSE [raised |-> "none",
            partition_offset |-> <<offset[2] * sector[2]>>]

OffsetInit ==
  /\ pc = "scan_source_offset"
  /\ single_process_mode = FALSE
  /\ debug_mode = FALSE
  /\ run_foreman = FALSE
  /\ source_type = "image"
  /\ Constructed
  /\ args \in OffsetOptions \X OffsetOptions \X OffsetOptions
  /\ result = << >>

ApplyPartitionOffsetHint ==
  /\ pc = "scan_source_offset" /\ result = << >>
  /\ result' = <<PartitionOffsetHint(args[1], args[2], args[3])>>
  /\ UNCHANGED <<pc, args, optionVars, abortVars, foremanVars, proxyVars,
                 prepVars, collector, childVars, workerVars, queueVars>>

OffsetSpec == OffsetInit /\ [][ApplyPartitionOffsetHint]_vars

\* An option that is given and numeric: a number, or a string of one.
Numeric(option) ==
  \/ option[1] = "int"
  \/ option[1] = "str" /\ IsInt(option[2])

\* The number of a numeric option.
NumberOf(option) ==
  IF option[1] = "int" THEN option[2] ELSE ToInt(option[2])

(***************************************************************************)
(* C40.  The partition offset hint is image_offset_bytes when that is      *)
(* given and numeric; otherwise image_offset times bytes_per_sector, 512   *)
(* when that is absent or not numeric, when image_offset is a number other *)
(* than 0; otherwise there is no hint.  An image_offset of 0 or one that   *)
(* is not numeric gives no hint and no error.                              *)
(***************************************************************************)
C40_OffsetHint ==
  result # << >> =>
    /\ result[1].raised = "none"
    /\ result[1].partition_offset =
         IF Numeric(args[1]) THEN <<NumberOf(args[1])>>
         ELSE IF Numeric(args[2]) /\ NumberOf(args[2]) # 0
           THEN <<NumberOf(args[2]) *
                    (IF Numeric(args[3]) THEN NumberOf(args[3])
                     ELSE DefaultBytesPerSector)>>
         ELSE << >>

====
